---- MODULE Spec2Model ----
(***************************************************************************)
(* A model of the detection core of the SAR pipeline (backend/app):        *)
(*   services/analytics.py        AnalyticsEngine  (per-account anomalies) *)
(*   services/typology_engine.py  TypologyEngine   (five typology matchers)*)
(*   services/graph_analysis.py   GraphAnalyzer    (customer graph)        *)
(*   agents/*.py, services/agent_orchestrator.py, main.py  (the pipeline)  *)
(*                                                                         *)
(* Conventions.  Amounts are whole dollars.  Timestamps are seconds since  *)
(* an arbitrary origin; a timedelta of d days is d * 86400.  Risk scores   *)
(* are carried in 1/10000 (1.0 = 10000), confidences and risk weights in   *)
(* 1/100 (0.95 = 95), so that risk_weight * confidence is again a risk     *)
(* score in 1/10000.  A dict key that is absent, and the NaN pandas puts   *)
(* in its place, is the value Missing.                                     *)
(***************************************************************************)
EXTENDS Integers, Sequences, FiniteSets, TLC

VARIABLES
    db_accounts,      \* table accounts: set of [id, customer_id]
    db_transactions,  \* table transactions: sequence of rows, in table order
    state,            \* the AgentState dict the pipeline nodes pass along
    pc,               \* the pipeline node to run next, or how the run ended
    trace,            \* the nodes entered so far, in order
    audit_logs,       \* table audit_logs of the case: agent_name of each row
    result,           \* what a direct call of a service, or a first run, returned
    self_graph,       \* self.graph of the GraphAnalyzer a direct caller holds
    matching          \* the locals of a TypologyEngine.match call under way

vars == <<db_accounts, db_transactions, state, pc, trace, audit_logs, result,
          self_graph, matching>>

Missing == "<missing>"

(***************************************************************************)
(* Generic helpers.                                                        *)
(***************************************************************************)
Min(a, b) == IF a <= b THEN a ELSE b

Max(a, b) == IF a >= b THEN a ELSE b

Range(s) == {s[i] : i \in 1..Len(s)}

RECURSIVE SumSeq(_)
SumSeq(s) == IF s = <<>> THEN 0 ELSE s[1] + SumSeq(Tail(s))

Amounts(rows) == [i \in 1..Len(rows) |-> rows[i].amount]

RECURSIVE SetToSortedSeq(_)
\* list(set(ints)): CPython iterates a set of small non-negative ints in
\* increasing order (hash(i) = i, table larger than the ids used here).
SetToSortedSeq(S) ==
    IF S = {} THEN <<>>
    ELSE LET m == CHOOSE x \in S : \A y \in S : x <= y
         IN <<m>> \o SetToSortedSeq(S \ {m})

RECURSIVE InsertByTimestamp(_, _)
InsertByTimestamp(sorted, row) ==
    IF sorted = <<>> THEN <<row>>
    ELSE IF sorted[Len(sorted)].timestamp <= row.timestamp
         THEN Append(sorted, row)
         ELSE Append(InsertByTimestamp(SubSeq(sorted, 1, Len(sorted) - 1), row),
                     sorted[Len(sorted)])

RECURSIVE SortByTimestamp(_)
\* ORDER BY timestamp / DataFrame.sort_values("timestamp"): ascending; rows
\* with equal timestamps keep their relative order (the order numpy's sort
\* leaves for the short frames modelled here).
SortByTimestamp(rows) ==
    IF rows = <<>> THEN <<>>
    ELSE InsertByTimestamp(SortByTimestamp(SubSeq(rows, 1, Len(rows) - 1)),
                           rows[Len(rows)])

\* Series.str.strip().str.upper() on the raw transaction_type strings that
\* occur in the model; a NaN stays a NaN.
StrUpperStrip(s) ==
    CASE s = "DEPOSIT"     -> "DEPOSIT"
      [] s = " deposit "   -> "DEPOSIT"
      [] s = "WITHDRAWAL"  -> "WITHDRAWAL"
      [] s = "withdrawal"  -> "WITHDRAWAL"
      [] s = "TRANSFER"    -> "TRANSFER"
      [] s = "Transfer "   -> "TRANSFER"
      [] OTHER             -> s

(***************************************************************************)
(* services/analytics.py -- AnalyticsEngine                                *)
(***************************************************************************)

\* db.query(Transaction).filter(account_id == a).order_by(timestamp).all()
QueryAccountTransactions(account_id) ==
    SortByTimestamp(SelectSeq(db_transactions, LAMBDA t : t.account_id = account_id))

\* The DataFrame detect_anomalies builds, transaction_type cleaned.
AnomalyFrame(rows) ==
    [i \in 1..Len(rows) |->
        [id               |-> rows[i].id,
         amount           |-> rows[i].amount,
         timestamp        |-> rows[i].timestamp,
         transaction_type |-> StrUpperStrip(rows[i].transaction_type)]]

RECURSIVE Gcd(_, _)
Gcd(a, b) == IF b = 0 THEN a ELSE Gcd(b, a % b)

RECURSIVE GcdSeq(_)
GcdSeq(s) == IF s = <<>> THEN 0 ELSE Gcd(s[1], GcdSeq(Tail(s)))

MinSeq(s) == CHOOSE x \in Range(s) : \A y \in Range(s) : x <= y

MaxSeq(s) == CHOOSE x \in Range(s) : \A y \in Range(s) : x >= y

\* a/b > c/d for a, c >= 0 and b, d > 0, without forming a*d or c*b.
FracGreater(a, b, c, d) ==
    IF (a \div b) # (c \div d) THEN (a \div b) > (c \div d)
    ELSE (a % b) * d > (c % d) * b

\* The z-score rule with a threshold of 2 standard deviations.
ZScoreAbove2(xs, x) ==
    LET n  == Len(xs)
        m  == MinSeq(xs)
        g0 == GcdSeq([i \in 1..n |-> xs[i] - m])
        g  == IF g0 = 0 THEN 1 ELSE g0
        ys == [i \in 1..n |-> (xs[i] - m) \div g]
        S  == SumSeq(ys)
        Q  == SumSeq([i \in 1..n |-> ys[i] * ys[i]])
        V  == n * Q - S * S
        d  == n * ((x - m) \div g) - S
    IN  /\ n >= 2
        /\ V # 0
        /\ d > 0
        /\ FracGreater(d * d, 4 * n, V, n - 1)

\* The z-score rule with the population standard deviation (ddof = 0).
ZScoreAbove3Population(xs, x) ==
    LET n  == Len(xs)
        m  == MinSeq(xs)
        g0 == GcdSeq([i \in 1..n |-> xs[i] - m])
        g  == IF g0 = 0 THEN 1 ELSE g0
        ys == [i \in 1..n |-> (xs[i] - m) \div g]
        S  == SumSeq(ys)
        Q  == SumSeq([i \in 1..n |-> ys[i] * ys[i]])
        V  == n * Q - S * S
        d  == n * ((x - m) \div g) - S
    IN  /\ V # 0
        /\ d > 0
        /\ FracGreater(d * d, 9 * n, V, n)

\* The amounts x with (x - mean) / std > 3, std being Series.std(), the
\* sample standard deviation (ddof = 1).  z is unchanged by x -> (x - m) / g,
\* which keeps the integers small.  With n values, sum S and sum of squares
\* Q of the reduced amounts, z(x) > 3 iff n*x > S and
\*   (n*x - S)^2 / (9*n) > (n*Q - S^2) / (n - 1).
ZScoreAbove3(xs, x) ==
    LET n  == Len(xs)
        m  == MinSeq(xs)
        g0 == GcdSeq([i \in 1..n |-> xs[i] - m])
        g  == IF g0 = 0 THEN 1 ELSE g0
        ys == [i \in 1..n |-> (xs[i] - m) \div g]
        S  == SumSeq(ys)
        Q  == SumSeq([i \in 1..n |-> ys[i] * ys[i]])
        V  == n * Q - S * S
        d  == n * ((x - m) \div g) - S
    IN  /\ n >= 2          \* std of one value is NaN, and NaN > 3 is False
        /\ V # 0           \* std_amount == 0: return []
        /\ d > 0
        /\ FracGreater(d * d, 9 * n, V, n - 1)

detect_z_score_anomalies(df) ==
    LET xs   == Amounts(df)
        rows == SelectSeq(df, LAMBDA r : ZScoreAbove3(xs, r.amount))
    IN  [i \in 1..Len(rows) |->
            [transaction_id |-> rows[i].id, amount |-> rows[i].amount]]

\* The structuring rule with a span of exactly 24 hours counted as within.
detect_structuring_inclusive(df) ==
    LET near_threshold ==
            SelectSeq(df, LAMBDA r :
                /\ r.amount > 9000
                /\ r.amount < 10000
                /\ r.transaction_type \in {"DEPOSIT", "WITHDRAWAL"})
        sorted == SortByTimestamp(near_threshold)
    IN  IF Len(near_threshold) < 3 THEN FALSE
        ELSE \E i \in 1..(Len(sorted) - 2) :
                sorted[i + 2].timestamp - sorted[i].timestamp <= 86400

detect_structuring(df) ==
    LET near_threshold ==
            SelectSeq(df, LAMBDA r :
                /\ r.amount > 9000
                /\ r.amount < 10000
                /\ r.transaction_type \in {"DEPOSIT", "WITHDRAWAL"})
        sorted == SortByTimestamp(near_threshold)
    IN  IF Len(near_threshold) < 3 THEN FALSE
        ELSE \E i \in 1..(Len(sorted) - 2) :
                sorted[i + 2].timestamp - sorted[i].timestamp < 86400

\* recent_daily > historical_daily * 3 as Python's floats decide it, for
\* recent_daily = r / 7 and historical_daily = h / D.  The doubles agree with
\* the exact comparison r * D > 21 * h except where both sides are equal as
\* fractions and the rounding of (h / D) * 3 falls below that of r / 7; for
\* r, h < 40 and D < 60 those are the triples <<r, h, D>> listed (D = 993
\* with h < 80 has no such triple).
FloatRateExceeds(r, h, D) ==
    \/ r * D > 21 * h
    \/ <<r, h, D>> \in
         { <<5, 10, 42>>, <<9, 9, 21>>, <<9, 12, 28>>, <<9, 15, 35>>,
           <<9, 18, 42>>, <<9, 21, 49>>, <<9, 24, 56>>, <<10, 10, 21>>,
           <<10, 20, 42>>, <<18, 12, 14>>, <<18, 18, 21>>, <<18, 24, 28>>,
           <<18, 30, 35>>, <<18, 36, 42>>, <<20, 20, 21>>, <<25, 25, 21>>,
           <<29, 29, 21>>, <<36, 12, 7>>, <<36, 24, 14>>, <<36, 36, 21>> }

detect_velocity_spike(df) ==
    LET ts            == [i \in 1..Len(df) |-> df[i].timestamp]
        recent_date   == MaxSeq(ts) - 7 * 86400
        recent_df     == SelectSeq(df, LAMBDA r : r.timestamp > recent_date)
        historical_df == SelectSeq(df, LAMBDA r : r.timestamp <= recent_date)
        days          == (MaxSeq(ts) - MinSeq(ts)) \div 86400
    IN  IF Len(recent_df) = 0 THEN FALSE
        ELSE IF Len(historical_df) < 7 THEN FALSE
        ELSE FloatRateExceeds(Len(recent_df), Len(historical_df), Max(1, days - 7))

\* The risk score with the z-score term left uncapped.
calculate_risk_score_uncapped(z_anomalies, structuring, velocity) ==
    LET zterm == Len(z_anomalies) * 1000
        sterm == IF structuring THEN 4000 ELSE 0
        vterm == IF velocity THEN 2000 ELSE 0
    IN  Min(10000, zterm + sterm + vterm)

calculate_risk_score(z_anomalies, structuring, velocity) ==
    LET zterm == IF Len(z_anomalies) > 0 THEN Min(4000, Len(z_anomalies) * 1000) ELSE 0
        sterm == IF structuring THEN 4000 ELSE 0
        vterm == IF velocity THEN 2000 ELSE 0
    IN  Min(10000, zterm + sterm + vterm)

detect_anomalies(account_id) ==
    LET rows == QueryAccountTransactions(account_id)
        df   == AnomalyFrame(rows)
        z_anomalies == detect_z_score_anomalies(df)
        structuring == detect_structuring(df)
        velocity    == detect_velocity_spike(df)
    IN  IF rows = <<>>
        THEN [anomalies |-> <<>>, structuring_detected |-> FALSE,
              velocity_spike |-> FALSE, risk_score |-> 0]
        ELSE [anomalies |-> z_anomalies, structuring_detected |-> structuring,
              velocity_spike |-> velocity,
              risk_score |-> calculate_risk_score(z_anomalies, structuring, velocity)]

(***************************************************************************)
(* services/typology_engine.py -- TypologyEngine                           *)
(*                                                                         *)
(* A transaction dict is a record [id, account_id, amount,                 *)
(* transaction_type, timestamp, counterparty, absent]; absent is the set   *)
(* of keys the dict does not have.  pd.DataFrame(transactions) has a       *)
(* column for every key some dict has; a dict without the key gets NaN     *)
(* there.  A None or NaN counterparty is the value Missing.  A detector    *)
(* returns [kind |-> "none"] for None, [kind |-> "raised"] when it raises  *)
(* KeyError on a column the frame does not have, or a match record.        *)
(***************************************************************************)
risk_weight(typology) ==
    CASE typology = "SMURFING"       -> 90
      [] typology = "LAYERING"       -> 95
      [] typology = "ROUND_TRIPPING" -> 85
      [] typology = "RAPID_MOVEMENT" -> 88
      [] typology = "SHELL_FAN_OUT"  -> 92

NoMatch == [kind |-> "none"]

Raised == [kind |-> "raised"]

HasColumn(txns, key) == \E i \in 1..Len(txns) : key \notin txns[i].absent

\* datetime.isoformat() as run_analysis applies it, and pd.to_datetime as
\* match applies it to the resulting string.
isoformat(seconds) == <<"iso8601", seconds>>

to_datetime(iso) == iso[2]

\* The frame match builds: amount as float, timestamp parsed.
TypologyFrame(txns) ==
    [i \in 1..Len(txns) |->
        [id               |-> txns[i].id,
         amount           |-> txns[i].amount,
         timestamp        |-> to_datetime(txns[i].timestamp),
         transaction_type |-> IF "transaction_type" \in txns[i].absent
                              THEN Missing ELSE txns[i].transaction_type,
         counterparty     |-> IF "counterparty" \in txns[i].absent
                              THEN Missing ELSE txns[i].counterparty]]

\* df[df["transaction_type"].str.upper().str.strip() == t].sort_values("timestamp")
OfType(df, t) ==
    SortByTimestamp(SelectSeq(df, LAMBDA r : StrUpperStrip(r.transaction_type) = t))

\* Series.nunique(): distinct values, NaN not counted.
nunique(rows) == Cardinality({rows[i].counterparty : i \in 1..Len(rows)} \ {Missing})

\* The quotient cut off after the second decimal.
RoundDivDown(num, den) == num \div den

\* round(x, 2) of x = num / den hundredths, to the nearest hundredth.  Where
\* x is exactly halfway the doubles decide; the halfway value the histories
\* of this module reach, 0.775, gives 0.78 either way.
RoundDiv(num, den) ==
    LET q == num \div den
        r == num % den
    IN  IF 2 * r > den THEN q + 1
        ELSE IF 2 * r < den THEN q
        ELSE IF q % 2 = 0 THEN q ELSE q + 1

RECURSIVE BestWindowLast(_, _, _)
\* The loop of _detect_smurfing keeping the last of the fullest windows.
BestWindowLast(deposits, i, best) ==
    IF i > Len(deposits) THEN best
    ELSE LET window_start == deposits[i].timestamp
             window_end   == window_start + 14 * 86400
             window_deposits ==
                 SelectSeq(deposits, LAMBDA r :
                     r.timestamp >= window_start /\ r.timestamp <= window_end)
         IN  BestWindowLast(deposits, i + 1,
                            IF Len(window_deposits) >= Len(best)
                            THEN window_deposits ELSE best)

RECURSIVE BestWindow(_, _, _)
\* The loop of _detect_smurfing from index i on: the first window, in
\* timestamp order of its start, that holds more deposits than any before.
BestWindow(deposits, i, best) ==
    IF i > Len(deposits) THEN best
    ELSE LET window_start == deposits[i].timestamp
             window_end   == window_start + 14 * 86400
             window_deposits ==
                 SelectSeq(deposits, LAMBDA r :
                     r.timestamp >= window_start /\ r.timestamp <= window_end)
         IN  BestWindow(deposits, i + 1,
                        IF Len(window_deposits) > Len(best)
                        THEN window_deposits ELSE best)

SmurfingConfidence(n, unique_parties, structuring) ==
    LET confidence == Min(95, 40 + n * 3 + unique_parties * 2)
    IN  IF structuring THEN Min(98, confidence + 10) ELSE confidence

detect_smurfing(df, has_type, has_party, analytics) ==
    LET deposits ==
            SelectSeq(OfType(df, "DEPOSIT"), LAMBDA r :
                r.amount > 4000 /\ r.amount < 10000)
        best_window    == BestWindow(deposits, 1, <<>>)
        unique_parties == nunique(best_window)
        total_amount   == SumSeq(Amounts(best_window))
        time_range     ==
            (best_window[Len(best_window)].timestamp - best_window[1].timestamp)
                \div 86400
        structuring    == analytics.structuring_detected
    IN  IF ~has_type THEN Raised
        ELSE IF Len(deposits) < 5 THEN NoMatch
        ELSE IF Len(best_window) < 5 THEN NoMatch
        ELSE IF ~has_party THEN Raised
        ELSE IF unique_parties < 3 THEN NoMatch
        ELSE [kind              |-> "match",
              typology          |-> "SMURFING",
              confidence        |-> SmurfingConfidence(Len(best_window),
                                        unique_parties, structuring),
              risk_weight       |-> risk_weight("SMURFING"),
              transaction_count |-> Len(best_window),
              total_amount      |-> total_amount,
              evidence          |->
                  <<  <<"deposits", Len(best_window)>>,
                      <<"unique_counterparties", unique_parties>>,
                      <<"days", time_range>>,
                      <<"aggregate_amount", total_amount>>,
                      <<"average_deposit", total_amount, Len(best_window)>> >>
                  \o (IF structuring THEN << <<"structuring_confirmed">> >>
                      ELSE <<>>)]

\* The follow-up window with a transfer at the deposit's own timestamp
\* counted.
FollowUpFromDeposit(transfers, dep) ==
    SelectSeq(transfers, LAMBDA r :
        r.timestamp >= dep.timestamp /\ r.timestamp <= dep.timestamp + 24 * 3600)

\* transfers[(timestamp > dep.timestamp) & (timestamp <= dep.timestamp + 24h)]
FollowUp(transfers, dep) ==
    SelectSeq(transfers, LAMBDA r :
        r.timestamp > dep.timestamp /\ r.timestamp <= dep.timestamp + 24 * 3600)

\* The layering confidence without the cap at 0.95.
LayeringConfidenceUncapped(n, total_out, dep_amount) ==
    RoundDiv((50 + n * 3) * dep_amount + 20 * total_out, dep_amount)

LayeringConfidence(n, total_out, dep_amount) ==
    Min(95, RoundDiv((50 + n * 3) * dep_amount + 20 * total_out, dep_amount))

RECURSIVE LayeringLoopAtLeast10(_, _, _, _)
\* The loop of _detect_layering asking for 10 transfers instead of 4.
LayeringLoopAtLeast10(large_deposits, transfers, i, has_party) ==
    IF i > Len(large_deposits) THEN NoMatch
    ELSE LET dep       == large_deposits[i]
             follow_up == FollowUp(transfers, dep)
             total_out == SumSeq(Amounts(follow_up))
         IN  IF Len(follow_up) >= 10
             THEN IF ~has_party THEN Raised
                  ELSE [kind              |-> "match",
                        typology          |-> "LAYERING",
                        confidence        |-> LayeringConfidence(Len(follow_up),
                                                  total_out, dep.amount),
                        risk_weight       |-> risk_weight("LAYERING"),
                        transaction_count |-> Len(follow_up) + 1,
                        total_amount      |-> dep.amount,
                        evidence          |->
                            <<  <<"large_deposit", dep.amount>>,
                                <<"transfers", Len(follow_up)>>,
                                <<"unique_recipients", nunique(follow_up)>>,
                                <<"dispersed", total_out, dep.amount>>,
                                <<"rapid_disbursement">> >>]
             ELSE LayeringLoopAtLeast10(large_deposits, transfers, i + 1, has_party)

RECURSIVE LayeringLoop(_, _, _, _)
LayeringLoop(large_deposits, transfers, i, has_party) ==
    IF i > Len(large_deposits) THEN NoMatch
    ELSE LET dep       == large_deposits[i]
             follow_up == FollowUp(transfers, dep)
             total_out == SumSeq(Amounts(follow_up))
         IN  IF Len(follow_up) >= 4
             THEN IF ~has_party THEN Raised
                  ELSE [kind              |-> "match",
                        typology          |-> "LAYERING",
                        confidence        |-> LayeringConfidence(Len(follow_up),
                                                  total_out, dep.amount),
                        risk_weight       |-> risk_weight("LAYERING"),
                        transaction_count |-> Len(follow_up) + 1,
                        total_amount      |-> dep.amount,
                        evidence          |->
                            <<  <<"large_deposit", dep.amount>>,
                                <<"transfers", Len(follow_up)>>,
                                <<"unique_recipients", nunique(follow_up)>>,
                                <<"dispersed", total_out, dep.amount>>,
                                <<"rapid_disbursement">> >>]
             ELSE LayeringLoop(large_deposits, transfers, i + 1, has_party)

detect_layering(df, has_type, has_party) ==
    LET deposits  == OfType(df, "DEPOSIT")
        transfers == OfType(df, "TRANSFER")
        large_deposits == SelectSeq(deposits, LAMBDA r : r.amount > 50000)
    IN  IF ~has_type THEN Raised
        ELSE IF deposits = <<>> \/ transfers = <<>> THEN NoMatch
        ELSE IF large_deposits = <<>> THEN NoMatch
        ELSE LayeringLoop(large_deposits, transfers, 1, has_party)

\* The slice that keeps the whole list.
FirstNAll(s, n) == s

FirstN(s, n) == SubSeq(s, 1, Min(n, Len(s)))

\* rows[rows["counterparty"] != party]; NaN differs from everything.
OtherParty(r, party) == r.counterparty = Missing \/ r.counterparty # party

\* The transfer amounts, of the multiples of 1000 up to 60000, for which the
\* double out_txn["amount"] * 1.15 is below the exact product (11000 * 1.15
\* is 12649.999999999998); for the others of them it is exact, as
\* amount * 0.85, amount * 0.9 and amount * 1.05 are for all of them.
ProductBelow115 ==
    {k * 1000 : k \in {3, 6, 7} \cup (11..14) \cup (21..28) \cup (41..56)}

\* inbound["amount"] <= out_txn["amount"] * 1.15 as the doubles decide it.
AtMost115Percent(amount, out_amount) ==
    \/ amount * 100 < out_amount * 115
    \/ amount * 100 = out_amount * 115 /\ out_amount \notin ProductBelow115

RECURSIVE RoundTrips(_, _, _)
\* The loop of _detect_round_tripping from outbound transfer i on.
RoundTrips(outbound, inbound, i) ==
    IF i > Len(outbound) THEN <<>>
    ELSE LET out_txn == outbound[i]
             window_start == out_txn.timestamp + 1 * 86400
             window_end   == out_txn.timestamp + 14 * 86400
             potential_returns ==
                 SelectSeq(inbound, LAMBDA r :
                     /\ r.timestamp >= window_start
                     /\ r.timestamp <= window_end
                     /\ OtherParty(r, out_txn.counterparty)
                     /\ r.amount * 100 >= out_txn.amount * 85
                     /\ AtMost115Percent(r.amount, out_txn.amount))
             rest == RoundTrips(outbound, inbound, i + 1)
         IN  IF out_txn.amount < 10000 THEN rest
             ELSE IF potential_returns = <<>> THEN rest
             ELSE << [out_id     |-> out_txn.id,
                      in_id      |-> potential_returns[1].id,
                      out_amount |-> out_txn.amount,
                      in_amount  |-> potential_returns[1].amount,
                      out_party  |-> out_txn.counterparty,
                      in_party   |-> potential_returns[1].counterparty,
                      days_apart |-> (potential_returns[1].timestamp
                                        - out_txn.timestamp) \div 86400] >>
                  \o rest

PairConfidence(n) == Min(95, 50 + n * 10)

detect_round_tripping(df, has_type, has_party) ==
    LET outbound == OfType(df, "TRANSFER")
        inbound  == OfType(df, "DEPOSIT")
        round_trips  == RoundTrips(outbound, inbound, 1)
        total_amount ==
            SumSeq([i \in 1..Len(round_trips) |-> round_trips[i].out_amount])
        shown == FirstN(round_trips, 3)
    IN  IF ~has_type THEN Raised
        ELSE IF outbound = <<>> \/ inbound = <<>> THEN NoMatch
        ELSE IF ~has_party /\ \E i \in 1..Len(outbound) : outbound[i].amount >= 10000
             THEN Raised
        ELSE IF Len(round_trips) < 2 THEN NoMatch
        ELSE [kind              |-> "match",
              typology          |-> "ROUND_TRIPPING",
              confidence        |-> PairConfidence(Len(round_trips)),
              risk_weight       |-> risk_weight("ROUND_TRIPPING"),
              transaction_count |-> Len(round_trips) * 2,
              total_amount      |-> total_amount,
              evidence          |->
                  <<  <<"round_trips", Len(round_trips)>>,
                      <<"returned_within_14_days">>,
                      <<"amounts_within_15_percent">>,
                      <<"total_circular_flow", total_amount>> >>
                  \o [i \in 1..Len(shown) |-> <<"pair", shown[i]>>]]

RECURSIVE PassThroughsOver20000(_, _, _)
\* The loop of _detect_rapid_movement with deposits of exactly 20000 skipped.
PassThroughsOver20000(deposits, withdrawals, i) ==
    IF i > Len(deposits) THEN <<>>
    ELSE LET dep == deposits[i]
             same_day_end == dep.timestamp + 24 * 3600
             matching_withdrawals ==
                 SelectSeq(withdrawals, LAMBDA r :
                     /\ r.timestamp > dep.timestamp
                     /\ r.timestamp <= same_day_end
                     /\ r.amount * 100 >= dep.amount * 90
                     /\ r.amount * 100 <= dep.amount * 105)
             rest == PassThroughsOver20000(deposits, withdrawals, i + 1)
         IN  IF dep.amount <= 20000 THEN rest
             ELSE IF matching_withdrawals = <<>> THEN rest
             ELSE << [dep_id      |-> dep.id,
                      wd_id       |-> matching_withdrawals[1].id,
                      deposit     |-> dep.amount,
                      withdrawal  |-> matching_withdrawals[1].amount,
                      seconds_apart |-> matching_withdrawals[1].timestamp
                                          - dep.timestamp,
                      dep_party   |-> dep.counterparty,
                      wd_party    |-> matching_withdrawals[1].counterparty] >>
                  \o rest

RECURSIVE PassThroughs(_, _, _)
\* The loop of _detect_rapid_movement from deposit i on.
PassThroughs(deposits, withdrawals, i) ==
    IF i > Len(deposits) THEN <<>>
    ELSE LET dep == deposits[i]
             same_day_end == dep.timestamp + 24 * 3600
             matching_withdrawals ==
                 SelectSeq(withdrawals, LAMBDA r :
                     /\ r.timestamp > dep.timestamp
                     /\ r.timestamp <= same_day_end
                     /\ r.amount * 100 >= dep.amount * 90
                     /\ r.amount * 100 <= dep.amount * 105)
             rest == PassThroughs(deposits, withdrawals, i + 1)
         IN  IF dep.amount < 20000 THEN rest
             ELSE IF matching_withdrawals = <<>> THEN rest
             ELSE << [dep_id      |-> dep.id,
                      wd_id       |-> matching_withdrawals[1].id,
                      deposit     |-> dep.amount,
                      withdrawal  |-> matching_withdrawals[1].amount,
                      seconds_apart |-> matching_withdrawals[1].timestamp
                                          - dep.timestamp,
                      dep_party   |-> dep.counterparty,
                      wd_party    |-> matching_withdrawals[1].counterparty] >>
                  \o rest

detect_rapid_movement(df, has_type) ==
    LET deposits    == OfType(df, "DEPOSIT")
        withdrawals == OfType(df, "WITHDRAWAL")
        pass_throughs == PassThroughs(deposits, withdrawals, 1)
        total ==
            SumSeq([i \in 1..Len(pass_throughs) |-> pass_throughs[i].deposit])
        shown == FirstN(pass_throughs, 3)
    IN  IF ~has_type THEN Raised
        ELSE IF deposits = <<>> \/ withdrawals = <<>> THEN NoMatch
        ELSE IF Len(pass_throughs) < 2 THEN NoMatch
        ELSE [kind              |-> "match",
              typology          |-> "RAPID_MOVEMENT",
              confidence        |-> PairConfidence(Len(pass_throughs)),
              risk_weight       |-> risk_weight("RAPID_MOVEMENT"),
              transaction_count |-> Len(pass_throughs) * 2,
              total_amount      |-> total,
              evidence          |->
                  <<  <<"pass_throughs", Len(pass_throughs)>>,
                      <<"same_amount_withdrawals">>,
                      <<"retained_less_than_24_hours">>,
                      <<"total_pass_through", total>> >>
                  \o [i \in 1..Len(shown) |-> <<"pair", shown[i]>>]]

\* for pattern in graph_results.get("suspicious_patterns", []):
\*     if pattern.get("type") == "high_degree_hub": hub_detected = True
HubDetected(graph_results) ==
    /\ graph_results.kind = "graph"
    /\ \E i \in 1..Len(graph_results.suspicious_patterns) :
          graph_results.suspicious_patterns[i].type = "high_degree_hub"

\* The counterparty names of the model, in string order.
CounterpartyNames ==
    << "CP01", "CP02", "CP03", "CP04", "CP05", "CP06", "CP07", "CP08",
       "CP09", "CP10", "CP11", "CP12", "CP13", "CP14", "CP15", "CP16" >>

KeyOrder(party) == CHOOSE i \in 1..Len(CounterpartyNames) : CounterpartyNames[i] = party

PartySum(rows, party) ==
    SumSeq(Amounts(SelectSeq(rows, LAMBDA r : r.counterparty = party)))

RECURSIVE NLargest(_, _, _)
\* groupby("counterparty")["amount"].sum().nlargest(n): the n largest sums,
\* equal sums in the order of the group keys.
NLargest(rows, parties, n) ==
    IF n = 0 \/ parties = {} THEN <<>>
    ELSE LET best == CHOOSE p \in parties :
                 \A q \in parties :
                     \/ PartySum(rows, p) > PartySum(rows, q)
                     \/ PartySum(rows, p) = PartySum(rows, q) /\ KeyOrder(p) <= KeyOrder(q)
         IN  << <<"recipient", best, PartySum(rows, best)>> >>
             \o NLargest(rows, parties \ {best}, n - 1)

\* The shell confidence without the hub bonus.
ShellConfidenceWithoutHub(unique_recipients, hub_detected) ==
    Min(95, 50 + unique_recipients * 3)

ShellConfidence(unique_recipients, hub_detected) ==
    Min(95, 50 + unique_recipients * 3 + (IF hub_detected THEN 10 ELSE 0))

RECURSIVE ShellLoop(_, _, _, _, _)
ShellLoop(large_deposits, transfers, i, has_party, graph_results) ==
    IF i > Len(large_deposits) THEN NoMatch
    ELSE LET dep       == large_deposits[i]
             follow_up == FollowUp(transfers, dep)
             unique_recipients == nunique(follow_up)
             total_out    == SumSeq(Amounts(follow_up))
             hub_detected == HubDetected(graph_results)
         IN  IF ~has_party THEN Raised
             ELSE IF Len(follow_up) >= 8 /\ unique_recipients >= 6
             THEN [kind              |-> "match",
                   typology          |-> "SHELL_FAN_OUT",
                   confidence        |-> ShellConfidence(unique_recipients,
                                                         hub_detected),
                   risk_weight       |-> risk_weight("SHELL_FAN_OUT"),
                   transaction_count |-> Len(follow_up) + 1,
                   total_amount      |-> dep.amount,
                   evidence          |->
                       <<  <<"large_inbound_wire", dep.amount>>,
                           <<"transfers", Len(follow_up)>>,
                           <<"unique_recipients", unique_recipients>>,
                           <<"total_dispersed", total_out>>,
                           <<"shell_characteristics">> >>
                       \o (IF hub_detected THEN << <<"hub_confirmed">> >>
                           ELSE <<>>)
                       \o NLargest(follow_up,
                              {follow_up[j].counterparty : j \in 1..Len(follow_up)}
                                  \ {Missing}, 5)]
             ELSE ShellLoop(large_deposits, transfers, i + 1, has_party,
                            graph_results)

detect_shell_fan_out(df, has_type, has_party, graph_results) ==
    LET deposits  == OfType(df, "DEPOSIT")
        transfers == OfType(df, "TRANSFER")
        large_deposits == SelectSeq(deposits, LAMBDA r : r.amount > 100000)
    IN  IF ~has_type THEN Raised
        ELSE IF deposits = <<>> \/ transfers = <<>> THEN NoMatch
        ELSE IF large_deposits = <<>> THEN NoMatch
        ELSE ShellLoop(large_deposits, transfers, 1, has_party, graph_results)

RECURSIVE InsertBeforeEqual(_, _)
\* The insertion of a sort that reverses an ascending sort: an entry goes
\* ahead of the entries of equal confidence already there.
InsertBeforeEqual(sorted, m) ==
    IF sorted = <<>> THEN <<m>>
    ELSE IF sorted[Len(sorted)].confidence > m.confidence
         THEN Append(sorted, m)
         ELSE Append(InsertBeforeEqual(SubSeq(sorted, 1, Len(sorted) - 1), m),
                     sorted[Len(sorted)])

RECURSIVE InsertByConfidence(_, _)
InsertByConfidence(sorted, m) ==
    IF sorted = <<>> THEN <<m>>
    ELSE IF sorted[Len(sorted)].confidence >= m.confidence
         THEN Append(sorted, m)
         ELSE Append(InsertByConfidence(SubSeq(sorted, 1, Len(sorted) - 1), m),
                     sorted[Len(sorted)])

RECURSIVE SortByConfidence(_)
\* matches.sort(key=lambda x: x["confidence"], reverse=True): list.sort is
\* stable, also with reverse=True: equal confidences keep their order.
SortByConfidence(matches) ==
    IF matches = <<>> THEN <<>>
    ELSE InsertByConfidence(SortByConfidence(SubSeq(matches, 1, Len(matches) - 1)),
                            matches[Len(matches)])

\* What the five detectors return, in the order match calls them.
DetectorResults(transactions, analytics_results, graph_results) ==
    LET df        == TypologyFrame(transactions)
        has_type  == HasColumn(transactions, "transaction_type")
        has_party == HasColumn(transactions, "counterparty")
    IN  << detect_smurfing(df, has_type, has_party, analytics_results),
           detect_layering(df, has_type, has_party),
           detect_round_tripping(df, has_type, has_party),
           detect_rapid_movement(df, has_type),
           detect_shell_fan_out(df, has_type, has_party, graph_results) >>

\* TypologyEngine.match: [kind |-> "list", matches |-> the sorted list], or
\* Raised when a detector raises (nothing catches it, so the call ends there).
match(transactions, analytics_results, graph_results) ==
    LET results == DetectorResults(transactions, analytics_results, graph_results)
        matches == SelectSeq(results, LAMBDA m : m.kind = "match")
    IN  IF transactions = <<>> THEN [kind |-> "list", matches |-> <<>>]
        ELSE IF \E i \in 1..Len(results) : results[i].kind = "raised" THEN Raised
        ELSE [kind |-> "list", matches |-> SortByConfidence(matches)]

(***************************************************************************)
(* services/graph_analysis.py -- GraphAnalyzer                             *)
(*                                                                         *)
(* A graph is [nodes, edges]: nodes a set, edges a set of records          *)
(* [source, target, weight, timestamp], at most one per pair of nodes      *)
(* (nx.Graph is a simple graph).  Node str(account.id) is <<"acct", id>>   *)
(* and node f"ext_{counterparty}" is <<"ext", counterparty>>.              *)
(***************************************************************************)
EmptyGraph == [nodes |-> {}, edges |-> {}]

\* db.query(Account).filter(Account.customer_id == customer_id).all()
QueryAccounts(customer_id) == {a \in db_accounts : a.customer_id = customer_id}

\* The query without its filter on the accounts.
QueryTransactionsOfAll(account_ids) == db_transactions

\* db.query(Transaction).filter(Transaction.account_id.in_(account_ids)).all()
QueryTransactionsIn(account_ids) ==
    SelectSeq(db_transactions, LAMBDA t : t.account_id \in account_ids)

RECURSIVE AddEdges(_, _)
\* The loop over the customer's transactions: add_node of the counterparty,
\* then add_edge, which overwrites the attributes of an edge already there.
AddEdges(graph, txns) ==
    IF txns = <<>> THEN graph
    ELSE LET txn == txns[1]
             counterparty_node == <<"ext", txn.counterparty>>
             source_node       == <<"acct", txn.account_id>>
             kept == {e \in graph.edges :
                         ~(e.source = source_node /\ e.target = counterparty_node)}
         IN  AddEdges([nodes |-> graph.nodes \cup {counterparty_node, source_node},
                       edges |-> kept \cup
                                 {[source    |-> source_node,
                                   target    |-> counterparty_node,
                                   weight    |-> txn.amount,
                                   timestamp |-> txn.timestamp]}],
                      Tail(txns))

Degree(graph, node) ==
    Cardinality({e \in graph.edges : e.source = node \/ e.target = node})

RECURSIVE Reach(_, _)
\* The nodes connected to a node of the set seen.
Reach(graph, seen) ==
    LET next == seen \cup {e.target : e \in {x \in graph.edges : x.source \in seen}}
                     \cup {e.source : e \in {x \in graph.edges : x.target \in seen}}
    IN  IF next = seen THEN seen ELSE Reach(graph, next)

\* nx.connected_components
ConnectedComponents(graph) == {Reach(graph, {n}) : n \in graph.nodes}

\* nx.community.greedy_modularity_communities, a library routine: a graph
\* without edges gets one community per node; otherwise the partition is
\* the library's, kept as the term naming it.
Communities(graph) ==
    IF graph.edges = {}
    THEN [kind |-> "partition", blocks |-> {{n} : n \in graph.nodes}]
    ELSE [kind |-> "greedy_modularity_communities", of |-> graph.nodes]

\* analyze_graph with the hub threshold at 10 instead of above 10.
analyze_graph_from_10(graph) ==
    LET high_degree == {n \in graph.nodes : Degree(graph, n) >= 10}
        components  == ConnectedComponents(graph)
        isolated    == {c \in components : Cardinality(c) > 3}
        hub_pattern ==
            IF high_degree # {}
            THEN << [type |-> "high_degree_hub", nodes |-> high_degree] >>
            ELSE <<>>
        isolated_pattern ==
            IF Cardinality(components) > 1 /\ isolated # {}
            THEN << [type |-> "isolated_community", nodes |-> isolated] >>
            ELSE <<>>
    IN  IF graph.nodes = {}
        THEN [kind |-> "graph", nodes |-> {}, edges |-> {},
              communities |-> [kind |-> "partition", blocks |-> {}],
              suspicious_patterns |-> <<>>]
        ELSE [kind |-> "graph", nodes |-> graph.nodes, edges |-> graph.edges,
              communities |-> Communities(graph),
              suspicious_patterns |-> hub_pattern \o isolated_pattern]

analyze_graph(graph) ==
    LET high_degree == {n \in graph.nodes : Degree(graph, n) > 10}
        components  == ConnectedComponents(graph)
        isolated    == {c \in components : Cardinality(c) > 3}
        hub_pattern ==
            IF high_degree # {}
            THEN << [type |-> "high_degree_hub", nodes |-> high_degree] >>
            ELSE <<>>
        isolated_pattern ==
            IF Cardinality(components) > 1 /\ isolated # {}
            THEN << [type |-> "isolated_community", nodes |-> isolated] >>
            ELSE <<>>
    IN  IF graph.nodes = {}
        THEN [kind |-> "graph", nodes |-> {}, edges |-> {},
              communities |-> [kind |-> "partition", blocks |-> {}],
              suspicious_patterns |-> <<>>]
        ELSE [kind |-> "graph", nodes |-> graph.nodes, edges |-> graph.edges,
              communities |-> Communities(graph),
              suspicious_patterns |-> hub_pattern \o isolated_pattern]

\* The graph self.graph holds after build_graph(customer_id), starting from
\* the graph it held before.
BuiltGraph(graph, customer_id) ==
    LET accounts     == QueryAccounts(customer_id)
        account_ids  == {a.id : a \in accounts}
        transactions == QueryTransactionsIn(account_ids)
        with_accounts ==
            [nodes |-> graph.nodes \cup {<<"acct", a.id>> : a \in accounts},
             edges |-> graph.edges]
    IN  AddEdges(with_accounts, transactions)

\* GraphAnalyzer(db).build_graph(customer_id): a new analyzer, whose graph
\* starts empty.
build_graph(customer_id) == analyze_graph(BuiltGraph(EmptyGraph, customer_id))

(***************************************************************************)
(* agents/*.py -- the seven pipeline nodes.                                *)
(*                                                                         *)
(* state is the AgentState dict.  analytics_results is                     *)
(*   [kind |-> "empty_dict"]                  the {} a caller puts there,  *)
(*   [kind |-> "error", error |-> ...]        {"error": ...}, or           *)
(*   [kind |-> "summary", ...]                the aggregated results;      *)
(* graph_results likewise, with kind "graph" for a GraphResult.            *)
(* customer_id 0 stands for a customer_id that is None or not given.       *)
(* The text the language model writes is kept only by its length class:    *)
(* "" (empty), "short" (under 50 characters) or "full" (over 100           *)
(* characters and at least 50 words).                                      *)
(***************************************************************************)
EmptyDict == [kind |-> "empty_dict"]

\* analytics_results.get("risk_score", 0)
RiskScoreOf(analytics_results) ==
    IF analytics_results.kind = "summary" THEN analytics_results.risk_score ELSE 0

\* BaseAgent.log_action: one more row of audit_logs, written by the agent.
log_action(agent_name) == audit_logs' = Append(audit_logs, agent_name)

Enter(node) == pc = node /\ trace' = Append(trace, node)

\* IngestionAgent._validate_transaction
validate_transaction(txn) ==
    \A field \in {"id", "account_id", "amount", "timestamp"} : field \notin txn.absent

IngestionAgent_execute ==
    /\ Enter("ingestion")
    /\ state' = [state EXCEPT
                    !.transactions = SelectSeq(@, validate_transaction),
                    !.ingestion_complete = TRUE]
    /\ log_action("IngestionAgent")
    /\ pc' = "analytics"
    /\ UNCHANGED <<db_accounts, db_transactions, matching, self_graph, result>>

\* aggregated_results as first built, before any account is analysed.
\* An aggregate that is not made anew for a run: its anomaly list still
\* holds the anomalies of the run before.
AggregatedKeptAcrossRuns(account_ids) ==
    [kind                 |-> "summary",
     anomalies            |-> IF result.kind = "final_state"
                                 /\ result.value.analytics_results.kind = "summary"
                              THEN result.value.analytics_results.anomalies
                              ELSE <<>>,
     structuring_detected |-> FALSE,
     velocity_spike       |-> FALSE,
     risk_score           |-> 0,
     account_breakdown    |-> <<>>,
     accounts_analyzed    |-> Len(account_ids)]

InitialAggregated(account_ids) ==
    [kind                 |-> "summary",
     anomalies            |-> <<>>,
     structuring_detected |-> FALSE,
     velocity_spike       |-> FALSE,
     risk_score           |-> 0,
     account_breakdown    |-> <<>>,
     accounts_analyzed    |-> Len(account_ids)]

\* One round of the loop over account_ids.
AggregateAccount(agg, acc_id) ==
    LET results == detect_anomalies(acc_id)
    IN  [agg EXCEPT
            !.structuring_detected = @ \/ results.structuring_detected,
            !.velocity_spike       = @ \/ results.velocity_spike,
            !.anomalies            = @ \o results.anomalies,
            !.risk_score           = IF results.risk_score > @
                                     THEN results.risk_score ELSE @,
            !.account_breakdown    = Append(@, [account_id |-> acc_id,
                                                results    |-> results])]

RECURSIVE AggregateAccounts(_, _)
AggregateAccounts(agg, account_ids) ==
    IF account_ids = <<>> THEN agg
    ELSE AggregateAccounts(AggregateAccount(agg, account_ids[1]), Tail(account_ids))

\* Step 1 of AnalyticsAgent.execute.
AggregatedResults(transactions) ==
    LET account_ids ==
            SetToSortedSeq({transactions[i].account_id : i \in 1..Len(transactions)})
    IN  AggregateAccounts(InitialAggregated(account_ids), account_ids)

\* The boost taken from the last match of the list instead of the first.
BoostedRiskByLastMatch(risk_score, matched_typologies) ==
    IF matched_typologies # <<>>
    THEN LET last_match    == matched_typologies[Len(matched_typologies)]
             typology_risk == last_match.risk_weight * last_match.confidence
         IN  Min(10000, Max(risk_score, typology_risk))
    ELSE risk_score

\* The boost of the risk score by the best match.
BoostedRisk(risk_score, matched_typologies) ==
    IF matched_typologies # <<>>
    THEN LET best_match    == matched_typologies[1]
             typology_risk == best_match.risk_weight * best_match.confidence
         IN  Min(10000, Max(risk_score, typology_risk))
    ELSE risk_score

\* The graph results AnalyticsAgent.execute hands to match.
GraphResultsForMatch == state.graph_results

AnalyticsAgent_execute ==
    /\ Enter("analytics")
    /\ LET transactions == state.transactions
           aggregated   == AggregatedResults(transactions)
           matched      == match(transactions, aggregated, GraphResultsForMatch)
       IN  IF transactions = <<>>
           THEN /\ state' = [state EXCEPT
                       !.analytics_results =
                           [kind |-> "error", error |-> "No transactions to analyze"],
                       !.matched_typologies = <<>>]
                /\ pc' = "correlation"
                /\ UNCHANGED audit_logs
           ELSE IF matched.kind = "raised"
           THEN /\ pc' = "raised"
                /\ UNCHANGED <<state, audit_logs>>
           ELSE /\ state' = [state EXCEPT
                       !.analytics_results =
                           [aggregated EXCEPT
                               !.risk_score = BoostedRisk(@, matched.matches)],
                       !.matched_typologies = matched.matches]
                /\ log_action("AnalyticsAgent")
                /\ pc' = "correlation"
    /\ UNCHANGED <<db_accounts, db_transactions, matching, self_graph, result>>

CorrelationAgent_execute ==
    /\ Enter("correlation")
    /\ IF state.customer_id = 0
       THEN /\ state' = [state EXCEPT
                   !.graph_results =
                       [kind |-> "error", error |-> "No customer_id provided"]]
            /\ UNCHANGED audit_logs
       ELSE /\ state' = [state EXCEPT
                   !.graph_results = build_graph(state.customer_id)]
            /\ log_action("CorrelationAgent")
    /\ pc' = "narrative"
    /\ UNCHANGED <<db_accounts, db_transactions, matching, self_graph, result>>

\* What generate_text may return for the SAR draft.
DraftClasses == {"short", "full"}

NarrativeAgent_execute ==
    /\ Enter("narrative")
    /\ \E step3_output \in DraftClasses :
          state' = [state EXCEPT !.sar_draft = step3_output]
    /\ log_action("NarrativeAgent")
    /\ pc' = "quality_review"
    /\ UNCHANGED <<db_accounts, db_transactions, matching, self_graph, result>>

\* The scores _parse_quality_score may read from the review.
ReviewScores == {50, 90}

QualityAgent_execute ==
    /\ Enter("quality_review")
    /\ IF state.sar_draft \in {"", "short"}
       THEN state' = [state EXCEPT !.quality_score = 0]
       ELSE \E quality_score \in ReviewScores :
               state' = [state EXCEPT !.quality_score = quality_score]
    /\ log_action("QualityAgent")
    /\ pc' = "compliance"
    /\ UNCHANGED <<db_accounts, db_transactions, matching, self_graph, result>>

ComplianceAgent_execute ==
    /\ Enter("compliance")
    /\ LET risk_score == RiskScoreOf(state.analytics_results)
           has_narrative      == state.sar_draft = "full"
           risk_score_present == risk_score > 0
           meets_threshold    == risk_score >= 5000
           narrative_complete == state.sar_draft = "full"
           all_valid == /\ has_narrative /\ risk_score_present
                        /\ meets_threshold /\ narrative_complete
       IN  state' = [state EXCEPT
               !.recommended_action =
                   IF all_valid THEN "FILE_SAR"
                   ELSE IF meets_threshold THEN "REVIEW_REQUIRED"
                   ELSE "NO_ACTION"]
    /\ log_action("ComplianceAgent")
    /\ pc' = "audit"
    /\ UNCHANGED <<db_accounts, db_transactions, matching, self_graph, result>>

\* The audit node handing over without setting audit_complete.
AuditLogger_execute_unmarked ==
    /\ Enter("audit")
    /\ state' = state
    /\ log_action("AuditLogger")
    /\ pc' = "END"
    /\ UNCHANGED <<db_accounts, db_transactions, matching, self_graph, result>>

AuditLogger_execute ==
    /\ Enter("audit")
    /\ state' = [state EXCEPT !.audit_complete = TRUE]
    /\ log_action("AuditLogger")
    /\ pc' = "END"
    /\ UNCHANGED <<db_accounts, db_transactions, matching, self_graph, result>>

(***************************************************************************)
(* main.py run_analysis and AgentOrchestrator.run -- how a run starts.     *)
(***************************************************************************)
\* The dict run_analysis makes of a Transaction row.
TxnDict(row) ==
    [id               |-> row.id,
     account_id       |-> row.account_id,
     amount           |-> row.amount,
     transaction_type |-> row.transaction_type,
     timestamp        |-> isoformat(row.timestamp),
     counterparty     |-> row.counterparty,
     absent           |-> {}]

\* The customer's transactions as run_analysis queries and converts them.
CustomerTxnDicts(customer_id) ==
    LET rows == QueryTransactionsIn({a.id : a \in QueryAccounts(customer_id)})
    IN  [i \in 1..Len(rows) |-> TxnDict(rows[i])]

\* initial_state of run_analysis, with the defaults AgentOrchestrator.run adds.
InitialState(customer_id, transactions) ==
    [customer_id        |-> customer_id,
     transactions       |-> transactions,
     analytics_results  |-> EmptyDict,
     graph_results      |-> EmptyDict,
     matched_typologies |-> <<>>,
     sar_draft          |-> "",
     quality_score      |-> 0,
     recommended_action |-> "UNKNOWN",
     ingestion_complete |-> FALSE,
     audit_complete     |-> FALSE]

Customers == {1, 2, 3}

\* POST /cases/{case_id}/run-analysis
run_analysis(customer_id) ==
    /\ pc = "idle"
    /\ LET txn_dicts == CustomerTxnDicts(customer_id)
       IN  IF txn_dicts = <<>>
           THEN /\ pc' = "http_400"
                /\ UNCHANGED state
           ELSE /\ pc' = "ingestion"
                /\ state' = InitialState(customer_id, txn_dicts)
    /\ UNCHANGED <<db_accounts, db_transactions, matching, self_graph, trace, audit_logs, result>>

\* The initial states a caller of AgentOrchestrator.run builds by hand from
\* the customer's rows (test_pipeline.py): the dicts as they are, without
\* one of the keys the ingestion check does not ask for, with the amount of
\* the first one left out, or without a customer_id.
CallerShapes == {"as_is", "no_counterparty", "no_type", "first_no_amount", "no_customer"}

CallerState(customer_id, shape) ==
    LET dicts == CustomerTxnDicts(customer_id)
        shaped ==
            [i \in 1..Len(dicts) |->
                [dicts[i] EXCEPT !.absent =
                    CASE shape = "no_counterparty" -> {"counterparty"}
                      [] shape = "no_type"         -> {"transaction_type"}
                      [] shape = "first_no_amount" /\ i = 1 -> {"amount"}
                      [] OTHER -> {}]]
    IN  InitialState(IF shape = "no_customer" THEN 0 ELSE customer_id, shaped)

\* AgentOrchestrator(db).run(initial_state), called directly.
AgentOrchestrator_run(customer_id, shape) ==
    /\ pc = "idle"
    /\ pc' = "ingestion"
    /\ state' = CallerState(customer_id, shape)
    /\ UNCHANGED <<db_accounts, db_transactions, matching, self_graph, trace, audit_logs, result>>

(***************************************************************************)
(* The data the runs are checked on.  A batch stands for count rows of one *)
(* account, type and amount, the i-th (from 0) at start + i * step, with   *)
(* the counterparties CounterpartyNames[party + (i % parties)].  A         *)
(* database holds the rows of some batches, in the order of the batches.   *)
(***************************************************************************)
Accounts ==
    { [id |-> 1, customer_id |-> 1],
      [id |-> 2, customer_id |-> 1],
      [id |-> 3, customer_id |-> 2] }

Batch(account_id, transaction_type, amount, start, step, count, party, parties) ==
    [account_id |-> account_id, transaction_type |-> transaction_type,
     amount |-> amount, start |-> start, step |-> step, count |-> count,
     party |-> party, parties |-> parties]

BatchRows(b) ==
    [i \in 1..b.count |->
        [account_id       |-> b.account_id,
         amount           |-> b.amount,
         transaction_type |-> b.transaction_type,
         timestamp        |-> b.start + (i - 1) * b.step,
         counterparty     |-> CounterpartyNames[b.party + ((i - 1) % b.parties)]]]

RECURSIVE ConcatBatches(_)
ConcatBatches(bs) ==
    IF bs = <<>> THEN <<>> ELSE BatchRows(bs[1]) \o ConcatBatches(Tail(bs))

\* Rows numbered as the table numbers them.
Renumbered(rows) ==
    [i \in 1..Len(rows) |->
        [id               |-> i,
         account_id       |-> rows[i].account_id,
         amount           |-> rows[i].amount,
         transaction_type |-> rows[i].transaction_type,
         timestamp        |-> rows[i].timestamp,
         counterparty     |-> rows[i].counterparty]]

Table(bs) == Renumbered(ConcatBatches(bs))

\* A scenario is a few batches that are put into the table together.
Scenarios ==
    << << Batch(1, "DEPOSIT",     9500,       0,   3600,  6,  1, 6) >>,
       << Batch(1, " deposit ",   5000,   86400, 172800,  5,  1, 3) >>,
       << Batch(1, "DEPOSIT",    60000,       0,      0,  1,  7, 1) >>,
       << Batch(1, "DEPOSIT",   150000,    3600,      0,  1,  7, 1) >>,
       << Batch(1, "TRANSFER",   15000,    7200,   3600,  4,  8, 4) >>,
       << Batch(1, "Transfer ",  20000,   10800,   3600,  8,  8, 6) >>,
       << Batch(1, "TRANSFER",   60000,    7200,   3600,  4,  8, 2) >>,
       << Batch(1, "DEPOSIT",      500,       0,   3600, 10,  1, 1) >>,
       << Batch(1, "DEPOSIT",   150000,    3600,      0,  1,  7, 1),
          Batch(1, "TRANSFER",   15000,    7200,   3600,  4,  8, 4) >>,
       << Batch(1, "DEPOSIT",    60000,       0,      0,  1,  7, 1),
          Batch(1, "TRANSFER",   15000,    7200,   3600,  4,  8, 4) >>,
       << Batch(1, "DEPOSIT",   150000,    3600,      0,  1,  7, 1),
          Batch(1, "Transfer ",  20000,   10800,   3600,  8,  8, 6) >>,
       << Batch(2, "TRANSFER",   20000,       0,   3600,  2, 14, 1),
          Batch(2, "DEPOSIT",    20000,  172800,   3600,  2, 15, 1),
          Batch(2, "WITHDRAWAL", 20000,  180000,      0,  1, 16, 1) >>,
       << Batch(2, "WITHDRAWAL", 20000,  180000,      0,  1, 16, 1) >>,
       << Batch(2, "withdrawal",  9500,       0,   3600,  3, 16, 1) >>,
       << Batch(2, "DEPOSIT",      500,       0,   3600,  7,  1, 1),
          Batch(2, "DEPOSIT",      500, 2592000,   3600, 10,  1, 1) >>,
       << Batch(3, "DEPOSIT",      500,       0,      0,  1,  1, 1) >> >>

MaxScenarios == 2

\* The increasing index sequences of at most n of the numbers from..k.
RECURSIVE Choices(_, _, _)
Choices(from, k, n) ==
    {<<>>} \cup
    (IF n = 0 THEN {}
     ELSE UNION {{<<i>> \o c : c \in Choices(i + 1, k, n - 1)} : i \in from..k})

RECURSIVE ConcatScenarios(_)
ConcatScenarios(c) ==
    IF c = <<>> THEN <<>> ELSE Scenarios[c[1]] \o ConcatScenarios(Tail(c))

NoState == InitialState(0, <<>>)

NoResult == [kind |-> "none"]

NoMatching == [kind |-> "none"]

InitWith(table) ==
    /\ db_accounts = Accounts
    /\ db_transactions = table
    /\ state = NoState
    /\ pc = "idle"
    /\ trace = <<>>
    /\ audit_logs = <<>>
    /\ result = NoResult
    /\ self_graph = EmptyGraph
    /\ matching = NoMatching

Init ==
    \E c \in Choices(1, Len(Scenarios), MaxScenarios) :
        InitWith(Table(ConcatScenarios(c)))

(***************************************************************************)
(* The services called on their own, as verify_logic.py and                *)
(* test_pipeline.py call them.                                             *)
(***************************************************************************)
AccountIds == {1, 2, 3, 4}

\* AnalyticsEngine(db).detect_anomalies(account_id)
AnalyticsEngine_detect_anomalies(account_id) ==
    /\ pc = "idle"
    /\ pc' = "returned"
    /\ result' = [kind |-> "AnomalyResult", account_id |-> account_id,
                  value |-> detect_anomalies(account_id)]
    /\ UNCHANGED <<db_accounts, db_transactions, matching, self_graph, state, trace, audit_logs>>

\* GraphAnalyzer(db).build_graph(customer_id)
GraphAnalyzer_build_graph(customer_id) ==
    /\ pc = "idle"
    /\ pc' = "returned"
    /\ self_graph' = BuiltGraph(EmptyGraph, customer_id)
    /\ result' = [kind |-> "GraphResult", customer_id |-> customer_id,
                  value |-> build_graph(customer_id)]
    /\ UNCHANGED <<db_accounts, db_transactions, matching, state, trace, audit_logs>>

\* TypologyEngine().match(txn_dicts, analytics_results, graph_results) over
\* the customer's transactions, with the aggregated analytics results and
\* either {} (test_pipeline.py) or the customer's GraphResult.
TypologyEngine_match(customer_id, shape, with_graph) ==
    /\ pc = "idle"
    /\ LET st == CallerState(customer_id, shape)
           graph_results == IF with_graph THEN build_graph(customer_id) ELSE EmptyDict
           matched == match(st.transactions, AggregatedResults(st.transactions),
                            graph_results)
       IN  /\ pc' = IF matched.kind = "list" THEN "returned" ELSE "raised"
           /\ result' = [kind |-> "matches", transactions |-> st.transactions,
                         graph_results |-> graph_results, value |-> matched]
    /\ UNCHANGED <<db_accounts, db_transactions, matching, self_graph, state, trace, audit_logs>>

Next ==
    \/ \E customer_id \in Customers : run_analysis(customer_id)
    \/ \E customer_id \in Customers, shape \in CallerShapes :
          AgentOrchestrator_run(customer_id, shape)
    \/ IngestionAgent_execute
    \/ AnalyticsAgent_execute
    \/ CorrelationAgent_execute
    \/ NarrativeAgent_execute
    \/ QualityAgent_execute
    \/ ComplianceAgent_execute
    \/ AuditLogger_execute
    \/ \E account_id \in AccountIds : AnalyticsEngine_detect_anomalies(account_id)
    \/ \E customer_id \in Customers : GraphAnalyzer_build_graph(customer_id)
    \/ \E customer_id \in Customers, shape \in CallerShapes \ {"first_no_amount"},
          with_graph \in BOOLEAN :
          TypologyEngine_match(customer_id, shape, with_graph)

Spec == Init /\ [][Next]_vars

(***************************************************************************)
(* detect_anomalies on the histories of one account that decide the        *)
(* structuring and the velocity rules.                                     *)
(***************************************************************************)
\* Rows around the structuring thresholds: a type and an amount, at one of
\* the timestamps.
StructuringKinds ==
    << <<"DEPOSIT", 9001>>, <<"withdrawal", 9999>>, <<"TRANSFER", 9500>>,
       <<"DEPOSIT", 9000>>, <<"DEPOSIT", 10000>>, <<"WITHDRAWAL", 10000>> >>

StructuringTimes == <<0, 86399, 86400>>

StructuringRow(k) ==
    LET kind == StructuringKinds[((k - 1) % Len(StructuringKinds)) + 1]
        time == StructuringTimes[((k - 1) \div Len(StructuringKinds)) + 1]
    IN  [account_id       |-> 1,
         amount           |-> kind[2],
         transaction_type |-> kind[1],
         timestamp        |-> time,
         counterparty     |-> "CP01"]

MaxStructuringRows == 4

\* The non-decreasing index sequences of at most n of the numbers from..k.
RECURSIVE Multisets(_, _, _)
Multisets(from, k, n) ==
    {<<>>} \cup
    (IF n = 0 THEN {}
     ELSE UNION {{<<i>> \o c : c \in Multisets(i, k, n - 1)} : i \in from..k})

\* Rows for the velocity rule: counts of small deposits at day 0, day 21 and
\* day 28.
VelocityTimes == <<0, 21 * 86400, 28 * 86400>>

MaxVelocityCount == 9

VelocityRows(counts) ==
    ConcatBatches([i \in 1..Len(VelocityTimes) |->
        Batch(1, "DEPOSIT", 500, VelocityTimes[i], 0, counts[i], 1, 1)])

\* Rows for the z-score rule: same-day deposits of the usual amount, at most
\* one each of the others.
ZScoreAmounts == <<100, 200, 1100, 100000>>

MaxUsualCount == 11

ZScoreRows(counts) ==
    ConcatBatches([i \in 1..Len(ZScoreAmounts) |->
        Batch(1, "DEPOSIT", ZScoreAmounts[i], 0, 0, counts[i], 1, 1)])

\* Rows for the risk score: tens of usual deposits on day 0, up to
\* MaxOutliers large ones on day 0 or on day 1000, and three deposits just
\* under the reporting threshold or none.
RiskAmounts == [usual |-> 9000, near |-> 9500, large |-> 19000]

MaxUsualTens == 5

MaxOutliers == 5

RiskRows(tens, outliers, near, late) ==
    ConcatBatches(
        << Batch(1, "DEPOSIT", RiskAmounts.usual, 0, 0, 10 * tens, 1, 1),
           Batch(1, "DEPOSIT", RiskAmounts.near, 0, 60, IF near THEN 3 ELSE 0, 1, 1),
           Batch(1, "DEPOSIT", RiskAmounts.large,
                 IF late THEN 1000 * 86400 ELSE 0, 0, outliers, 1, 1) >>)

InitAnalytics ==
    \/ \E c \in Multisets(1, Len(StructuringKinds) * Len(StructuringTimes),
                         MaxStructuringRows) :
          InitWith(Renumbered([i \in 1..Len(c) |-> StructuringRow(c[i])]))
    \/ \E counts \in [1..Len(VelocityTimes) -> 0..MaxVelocityCount] :
          InitWith(Renumbered(VelocityRows(counts)))
    \/ \E usual \in 0..MaxUsualCount, others \in [2..Len(ZScoreAmounts) -> 0..1] :
          InitWith(Renumbered(ZScoreRows(
              [i \in 1..Len(ZScoreAmounts) |-> IF i = 1 THEN usual ELSE others[i]])))
    \/ \E tens \in 0..MaxUsualTens, outliers \in 0..MaxOutliers,
          near \in BOOLEAN, late \in BOOLEAN :
          InitWith(Renumbered(RiskRows(tens, outliers, near, late)))

NextAnalytics ==
    \E account_id \in AccountIds : AnalyticsEngine_detect_anomalies(account_id)

SpecAnalytics == InitAnalytics /\ [][NextAnalytics]_vars

(***************************************************************************)
(* Properties of the pipeline and of the services (specification Spec).    *)
(***************************************************************************)
\* The analytics node has run its detection on this run's transactions.
AnalyticsDone == state.analytics_results.kind = "summary"

\* The customer has no transaction in the table.
ZeroTransactions(customer_id) ==
    \A i \in 1..Len(db_transactions) :
        \A a \in db_accounts :
            a.id = db_transactions[i].account_id => a.customer_id # customer_id

\* C1: in every pipeline run, when the analytics node is about to run the
\* typology detectors (SHELL_FAN_OUT among them), the graph results it hands
\* to match are the GraphResult of this run's customer, graph construction
\* having completed before.
C1_GraphBuiltBeforeShellDetector ==
    (pc = "analytics" /\ state.transactions # <<>> /\ state.customer_id # 0)
        => GraphResultsForMatch = build_graph(state.customer_id)

Precedence(typology) ==
    CASE typology = "SMURFING"       -> 1
      [] typology = "LAYERING"       -> 2
      [] typology = "ROUND_TRIPPING" -> 3
      [] typology = "RAPID_MOVEMENT" -> 4
      [] typology = "SHELL_FAN_OUT"  -> 5

SortedWithPrecedence(matches) ==
    \A i, j \in 1..Len(matches) :
        i < j =>
            \/ matches[i].confidence > matches[j].confidence
            \/ /\ matches[i].confidence = matches[j].confidence
               /\ Precedence(matches[i].typology) < Precedence(matches[j].typology)

\* The list a direct call of match returned, <<>> when there is none.
ReturnedMatches ==
    IF result.kind = "matches" /\ result.value.kind = "list"
    THEN result.value.matches ELSE <<>>

\* C2: the list match returns (to a direct caller, and to the analytics
\* node, which stores it as matched_typologies) is sorted by confidence in
\* descending order, entries of equal confidence in the order SMURFING,
\* LAYERING, ROUND_TRIPPING, RAPID_MOVEMENT, SHELL_FAN_OUT.
C2_MatchesSortedWithPrecedence ==
    /\ SortedWithPrecedence(ReturnedMatches)
    /\ SortedWithPrecedence(state.matched_typologies)

\* A returned list in which two entries tie and in which the sort moved an
\* entry ahead of one of an earlier detector.
C2_Witness ==
    /\ \E i, j \in 1..Len(ReturnedMatches) :
          /\ i < j
          /\ ReturnedMatches[i].confidence = ReturnedMatches[j].confidence
    /\ \E i, j \in 1..Len(ReturnedMatches) :
          /\ i < j
          /\ ReturnedMatches[i].confidence > ReturnedMatches[j].confidence
          /\ Precedence(ReturnedMatches[i].typology)
                > Precedence(ReturnedMatches[j].typology)

ConfidencesInUnitInterval(matches) ==
    \A i \in 1..Len(matches) :
        matches[i].confidence >= 0 /\ matches[i].confidence <= 100

RiskInUnitInterval(risk_score) == risk_score >= 0 /\ risk_score <= 10000

\* C3: every per-account risk score, the case-level risk score after
\* aggregation and boost, and the confidence of every typology match lie in
\* [0, 1] (risk scores are in 1/10000, confidences in 1/100).
C3_ScoresInUnitInterval ==
    /\ ConfidencesInUnitInterval(ReturnedMatches)
    /\ ConfidencesInUnitInterval(state.matched_typologies)
    /\ result.kind = "AnomalyResult" => RiskInUnitInterval(result.value.risk_score)
    /\ AnalyticsDone =>
          /\ RiskInUnitInterval(state.analytics_results.risk_score)
          /\ \A i \in 1..Len(state.analytics_results.account_breakdown) :
                RiskInUnitInterval(
                    state.analytics_results.account_breakdown[i].results.risk_score)

\* A finished detection with a risk above 0 on some account and a LAYERING
\* match at the top of its range.
C3_Witness ==
    /\ AnalyticsDone
    /\ \E i \in 1..Len(state.analytics_results.account_breakdown) :
          state.analytics_results.account_breakdown[i].results.risk_score > 0
    /\ \E i \in 1..Len(state.matched_typologies) :
          /\ state.matched_typologies[i].typology = "LAYERING"
          /\ state.matched_typologies[i].confidence = 95

RECURSIVE MaxAccountRisk(_)
MaxAccountRisk(account_breakdown) ==
    IF account_breakdown = <<>> THEN 0
    ELSE Max(account_breakdown[1].results.risk_score,
             MaxAccountRisk(Tail(account_breakdown)))

\* C4: after detection the case risk score is
\* min(1, max(analytics_risk, risk_weight x confidence of the first match)),
\* the first match being one of the highest confidence and analytics_risk
\* the maximum of the per-account risk scores; without a match it is
\* analytics_risk.
C4_CaseRiskIsBoostedMax ==
    AnalyticsDone =>
        LET analytics_risk ==
                MaxAccountRisk(state.analytics_results.account_breakdown)
            matches == state.matched_typologies
        IN  IF matches = <<>>
            THEN state.analytics_results.risk_score = analytics_risk
            ELSE /\ \A i \in 1..Len(matches) :
                       matches[1].confidence >= matches[i].confidence
                 /\ state.analytics_results.risk_score =
                       Min(10000, Max(analytics_risk,
                               matches[1].risk_weight * matches[1].confidence))

\* A detection with several matches of different typology risk, a positive
\* analytics risk and a boost that raised the case risk above it.
C4_Witness ==
    /\ AnalyticsDone
    /\ Len(state.matched_typologies) >= 2
    /\ MaxAccountRisk(state.analytics_results.account_breakdown) > 0
    /\ state.analytics_results.risk_score
          > MaxAccountRisk(state.analytics_results.account_breakdown)
    /\ \E i \in 1..Len(state.matched_typologies) :
          state.matched_typologies[i].risk_weight * state.matched_typologies[i].confidence
             # state.matched_typologies[1].risk_weight * state.matched_typologies[1].confidence

\* The matches of the detectors that did not raise, in the order of the calls.
MatchesOfTheOthers(results) == SelectSeq(results, LAMBDA m : m.kind = "match")

\* C5: when one of the five detectors raises on the transactions the
\* analytics node hands to match, match still returns a list, and the list
\* holds the matches of the detectors that did not raise.
C5_DetectorFailureIsolated ==
    (pc = "analytics" /\ state.transactions # <<>>) =>
        LET aggregated == AggregatedResults(state.transactions)
            results == DetectorResults(state.transactions, aggregated,
                                       GraphResultsForMatch)
            matched == match(state.transactions, aggregated, GraphResultsForMatch)
        IN  (\E i \in 1..Len(results) : results[i].kind = "raised") =>
                /\ matched.kind = "list"
                /\ Range(matched.matches) = Range(MatchesOfTheOthers(results))

ZeroValueSummary(analytics_results) ==
    /\ analytics_results.kind = "summary"
    /\ analytics_results.risk_score = 0
    /\ ~analytics_results.structuring_detected
    /\ ~analytics_results.velocity_spike
    /\ analytics_results.anomalies = <<>>

\* C6: for a customer with zero transactions detection ends as a zero-value
\* case and not as an error: the request is not refused, the analytics node
\* leaves a summary with risk score 0, false flags and no anomalies, and an
\* empty match list; and detect_anomalies on an account without
\* transactions returns the zero-value result.
C6_ZeroTransactionsIsZeroValue ==
    /\ pc # "http_400"
    /\ (pc \in {"correlation", "narrative", "quality_review", "compliance",
                "audit", "END"} /\ state.transactions = <<>>) =>
          /\ ZeroValueSummary(state.analytics_results)
          /\ state.matched_typologies = <<>>
    /\ (result.kind = "AnomalyResult"
            /\ QueryAccountTransactions(result.account_id) = <<>>) =>
          result.value = [anomalies |-> <<>>, structuring_detected |-> FALSE,
                          velocity_spike |-> FALSE, risk_score |-> 0]

AccountNodes(customer_id) == {<<"acct", a.id>> : a \in QueryAccounts(customer_id)}

\* C7 as the specification states it: for a customer with zero
\* transactions, with or without accounts, build_graph returns a result
\* whose node, edge and community collections are all empty.
C7_ZeroTransactionsEmptyGraph ==
    (result.kind = "GraphResult" /\ ZeroTransactions(result.customer_id)) =>
        /\ result.value.nodes = {}
        /\ result.value.edges = {}
        /\ result.value.communities = [kind |-> "partition", blocks |-> {}]

\* C7 amended: for a customer with zero transactions the result of
\* build_graph on a new GraphAnalyzer has no edge and has exactly the nodes
\* of the customer's accounts; when the customer has no account its node,
\* edge and community collections are all empty.
C7_ZeroTransactionsAccountNodesOnly ==
    (result.kind = "GraphResult" /\ ZeroTransactions(result.customer_id)) =>
        /\ result.value.edges = {}
        /\ result.value.nodes = AccountNodes(result.customer_id)
        /\ QueryAccounts(result.customer_id) = {} =>
              /\ result.value.nodes = {}
              /\ result.value.communities = [kind |-> "partition", blocks |-> {}]

\* build_graph has returned for a customer with accounts and without
\* transactions while another customer has transactions.
C7_Witness ==
    /\ result.kind = "GraphResult"
    /\ ZeroTransactions(result.customer_id)
    /\ QueryAccounts(result.customer_id) # {}
    /\ result.value.nodes # {}
    /\ db_transactions # <<>>

(***************************************************************************)
(* A second run of the pipeline on what the first one returned.            *)
(***************************************************************************)
\* AgentOrchestrator(db).run called again, for the same customer and with
\* the transactions of the state the first run returned.
AgentOrchestrator_run_again ==
    /\ pc = "END"
    /\ result = NoResult
    /\ result' = [kind |-> "final_state", value |-> state]
    /\ state' = InitialState(state.customer_id, state.transactions)
    /\ pc' = "ingestion"
    /\ UNCHANGED <<db_accounts, db_transactions, matching, self_graph, trace, audit_logs>>

RerunScenarios == <<1, 8, 10, 13, 15>>

InitRerun ==
    \E picked \in SUBSET (1..Len(RerunScenarios)) :
        InitWith(Table(ConcatScenarios(
            SelectSeq(RerunScenarios,
                      LAMBDA k : \E i \in picked : RerunScenarios[i] = k))))

NextRerun ==
    \/ \E customer_id \in Customers : run_analysis(customer_id)
    \/ \E customer_id \in Customers, shape \in CallerShapes :
          AgentOrchestrator_run(customer_id, shape)
    \/ IngestionAgent_execute
    \/ AnalyticsAgent_execute
    \/ CorrelationAgent_execute
    \/ NarrativeAgent_execute
    \/ QualityAgent_execute
    \/ ComplianceAgent_execute
    \/ AuditLogger_execute
    \/ AgentOrchestrator_run_again

SpecRerun == InitRerun /\ [][NextRerun]_vars

\* The analytics node of the second run has finished.
SecondDetectionDone ==
    /\ result.kind = "final_state"
    /\ pc \in {"correlation", "narrative", "quality_review", "compliance",
               "audit", "END"}

Qualifying(account_id) ==
    {i \in 1..Len(db_transactions) :
        /\ db_transactions[i].account_id = account_id
        /\ db_transactions[i].amount > 9000
        /\ db_transactions[i].amount < 10000
        /\ StrUpperStrip(db_transactions[i].transaction_type)
              \in {"DEPOSIT", "WITHDRAWAL"}}

\* Three qualifying rows, consecutive among the qualifying rows in timestamp
\* order, whose first and last are less than 24 hours apart.
ThreeConsecutiveWithinADay(account_id) ==
    \E i, j, k \in Qualifying(account_id) :
        /\ i # j /\ j # k /\ i # k
        /\ db_transactions[i].timestamp <= db_transactions[j].timestamp
        /\ db_transactions[j].timestamp <= db_transactions[k].timestamp
        /\ db_transactions[k].timestamp - db_transactions[i].timestamp < 86400
        /\ \A l \in Qualifying(account_id) \ {i, j, k} :
              \/ db_transactions[l].timestamp <= db_transactions[i].timestamp
              \/ db_transactions[l].timestamp >= db_transactions[k].timestamp

\* C9: detect_anomalies sets structuring_detected exactly when three of the
\* account's qualifying transactions (amount strictly between 9000 and
\* 10000, DEPOSIT or WITHDRAWAL) are consecutive in timestamp order and span
\* less than 24 hours; transfers and amounts of 9000 or 10000 do not count.
C9_StructuringIffThreeWithinADay ==
    result.kind = "AnomalyResult" =>
        (result.value.structuring_detected
            <=> ThreeConsecutiveWithinADay(result.account_id))

\* Structuring was detected on a history that also holds a transfer or a
\* row at a threshold, the three qualifying rows not all at one timestamp.
C9_Witness ==
    /\ result.kind = "AnomalyResult"
    /\ result.value.structuring_detected
    /\ \E i \in 1..Len(db_transactions) : i \notin Qualifying(result.account_id)
    /\ \E i, k \in Qualifying(result.account_id) :
          db_transactions[k].timestamp - db_transactions[i].timestamp = 86399

\* The timestamps of the account's rows.
TimestampsOf(account_id) ==
    {db_transactions[i].timestamp :
        i \in {n \in 1..Len(db_transactions) :
                  db_transactions[n].account_id = account_id}}

\* The number of the account's rows whose timestamp satisfies Test.
CountRows(account_id, Test(_)) ==
    Cardinality({i \in 1..Len(db_transactions) :
        /\ db_transactions[i].account_id = account_id
        /\ Test(db_transactions[i].timestamp)})

\* C10: detect_anomalies sets velocity_spike exactly when at least 7
\* transactions are at or before the latest timestamp minus 7 days and
\* (number after the cut) / 7 > 3 x (number at or before the cut)
\* / max(1, whole days between earliest and latest - 7); r / 7 > 3 h / D is
\* r * D > 21 * h.
C10_VelocitySpikeIffRateExceeds ==
    (result.kind = "AnomalyResult" /\ TimestampsOf(result.account_id) # {}) =>
        LET ts     == TimestampsOf(result.account_id)
            latest == CHOOSE t \in ts : \A u \in ts : u <= t
            first  == CHOOSE t \in ts : \A u \in ts : t <= u
            cut    == latest - 7 * 86400
            h      == CountRows(result.account_id, LAMBDA t : t <= cut)
            r      == CountRows(result.account_id, LAMBDA t : t > cut)
            D      == Max(1, ((latest - first) \div 86400) - 7)
        IN  result.value.velocity_spike <=> (h >= 7 /\ r * D > 21 * h)

(***************************************************************************)
(* Properties of the z-score rule and of the risk score (specification     *)
(* SpecAnalytics).                                                         *)
(***************************************************************************)
\* The amounts of the account's rows, in table order.
AmountsOf(account_id) ==
    LET rows == SelectSeq(db_transactions, LAMBDA t : t.account_id = account_id)
    IN  [i \in 1..Len(rows) |-> rows[i].amount]

Abs(x) == IF x < 0 THEN -x ELSE x

\* The largest unit all differences between the amounts are multiples of.
UnitOf(xs) ==
    LET g == GcdSeq([i \in 1..Len(xs) |-> Abs(xs[i] - xs[1])])
    IN  IF g = 0 THEN 1 ELSE g

\* n * (x - mean) in units: the sum of the differences x - xs[i].
Deviation(xs, x) ==
    SumSeq([i \in 1..Len(xs) |-> (x - xs[i]) \div UnitOf(xs)])

\* n^2 * (population variance) in squared units: the sum over the pairs
\* i < j of (xs[i] - xs[j])^2.
Spread(xs) ==
    LET u == UnitOf(xs)
    IN  SumSeq([i \in 1..Len(xs) |->
            SumSeq([j \in 1..Len(xs) |->
                IF i < j THEN ((xs[i] - xs[j]) \div u) * ((xs[i] - xs[j]) \div u)
                ELSE 0])])

\* (x - mean) / s > 3 for the sample standard deviation s:
\* s^2 = Spread / (n * (n - 1)), so z^2 > 9 is
\* Deviation^2 / (9 * n) > Spread / (n - 1).
SampleZAbove3(xs, x) ==
    /\ Len(xs) >= 2
    /\ Spread(xs) > 0
    /\ Deviation(xs, x) > 0
    /\ FracGreater(Deviation(xs, x) * Deviation(xs, x), 9 * Len(xs),
                   Spread(xs), Len(xs) - 1)

\* (x - mean) / sigma > 3 for the population standard deviation sigma:
\* sigma^2 = Spread / n^2, so z^2 > 9 is Deviation^2 > 9 * Spread.
PopulationZAbove3(xs, x) ==
    /\ Spread(xs) > 0
    /\ Deviation(xs, x) > 0
    /\ Deviation(xs, x) * Deviation(xs, x) > 9 * Spread(xs)

\* The ids detect_anomalies reported as z-score anomalies.
FlaggedIds == {result.value.anomalies[i].transaction_id :
                  i \in 1..Len(result.value.anomalies)}

\* The ids of the account's rows whose amount satisfies Test.
IdsWhere(account_id, Test(_)) ==
    {db_transactions[i].id :
        i \in {n \in 1..Len(db_transactions) :
                  /\ db_transactions[n].account_id = account_id
                  /\ Test(db_transactions[n].amount)}}

\* C11 as stated: detect_anomalies flags exactly the transactions whose
\* z-score exceeds 3, mean and standard deviation being the population mean
\* and the population standard deviation of the account's amounts, and
\* flags none when the standard deviation is zero.
C11_FlagsPopulationZScoreAbove3 ==
    result.kind = "AnomalyResult" =>
        LET xs == AmountsOf(result.account_id)
        IN  /\ FlaggedIds = IdsWhere(result.account_id,
                                     LAMBDA x : PopulationZAbove3(xs, x))
            /\ Cardinality(FlaggedIds) = Len(result.value.anomalies)
            /\ (xs # <<>> /\ Spread(xs) = 0) => result.value.anomalies = <<>>

\* C11 amended: detect_anomalies flags exactly the transactions whose
\* z-score exceeds 3, the standard deviation being the sample standard
\* deviation (divisor n - 1) of the account's amounts, each once, and flags
\* none when the standard deviation is zero or the account has one
\* transaction.
C11_FlagsSampleZScoreAbove3 ==
    result.kind = "AnomalyResult" =>
        LET xs == AmountsOf(result.account_id)
        IN  /\ FlaggedIds = IdsWhere(result.account_id,
                                     LAMBDA x : SampleZAbove3(xs, x))
            /\ Cardinality(FlaggedIds) = Len(result.value.anomalies)
            /\ (Len(xs) = 1 \/ (xs # <<>> /\ Spread(xs) = 0))
                  => result.value.anomalies = <<>>

\* detect_anomalies returned no anomaly for an account one of whose amounts
\* is more than 3 population standard deviations above the mean.
C11_Witness ==
    /\ result.kind = "AnomalyResult"
    /\ result.value.anomalies = <<>>
    /\ \E x \in Range(AmountsOf(result.account_id)) :
          /\ PopulationZAbove3(AmountsOf(result.account_id), x)
          /\ ~SampleZAbove3(AmountsOf(result.account_id), x)

\* The account's history is one transaction of 100000 among n others of
\* about 100: amounts of 100, at most one of them 200.
OneLargeAmong(account_id, n) ==
    LET xs == AmountsOf(account_id)
        Count(v) == Cardinality({i \in 1..Len(xs) : xs[i] = v})
    IN  /\ Len(xs) = n + 1
        /\ Count(100000) = 1
        /\ Count(200) <= 1
        /\ Count(100) + Count(200) = n

RiskFormula(n, structuring, velocity) ==
    LET capped == IF n >= 4 THEN 4000 ELSE 1000 * n
        total  == capped + (IF structuring THEN 4000 ELSE 0)
                         + (IF velocity THEN 2000 ELSE 0)
    IN  IF total >= 10000 THEN 10000 ELSE total

\* C13: the risk_score detect_anomalies returns for an account is
\* min(1.0, min(0.4, 0.1 * n) + (0.4 if structuring_detected)
\* + (0.2 if velocity_spike)), n being the number of z-score anomalies it
\* returns, for every combination of n and the two flags.
C13_RiskScoreFormula ==
    result.kind = "AnomalyResult" =>
        result.value.risk_score =
            RiskFormula(Len(result.value.anomalies),
                        result.value.structuring_detected,
                        result.value.velocity_spike)

\* detect_anomalies returned five z-score anomalies with both flags set.
C13_Witness ==
    /\ result.kind = "AnomalyResult"
    /\ Len(result.value.anomalies) = 5
    /\ result.value.structuring_detected
    /\ result.value.velocity_spike

(***************************************************************************)
(* Properties of the stored summary and of the typology detectors          *)
(* (specification Spec).                                                   *)
(***************************************************************************)
\* C14: the analytics_results that AnalyticsAgent.execute leaves in the
\* state for the later nodes has a risk_score equal to the maximum of the
\* per-account risk scores in its account_breakdown.
C14_SummaryRiskIsMaxAccountRisk ==
    AnalyticsDone =>
        state.analytics_results.risk_score =
            MaxAccountRisk(state.analytics_results.account_breakdown)

(***************************************************************************)
(* match on the histories of one account that decide each detector         *)
(* (specification SpecTypology).                                           *)
(***************************************************************************)
Row(transaction_type, amount, timestamp, party) ==
    [account_id       |-> 1,
     amount           |-> amount,
     transaction_type |-> transaction_type,
     timestamp        |-> timestamp,
     counterparty     |-> CounterpartyNames[party]]

Day == 24 * 60 * 60

\* Rows around the thresholds of the smurfing rule.
SmurfingKinds ==
    << Row("DEPOSIT", 5000, 0, 1),
       Row("DEPOSIT", 6000, 0, 2),
       Row(" deposit ", 9999, 14 * Day, 2),
       Row("DEPOSIT", 4001, 14 * Day, 1),
       Row("DEPOSIT", 7000, 14 * Day + 1, 3),
       Row("DEPOSIT", 4000, Day, 3),
       Row("DEPOSIT", 10000, Day, 3),
       Row("TRANSFER", 5000, Day, 3),
       Row("DEPOSIT", 8000, Day, 3) >>

MaxSmurfingRows == 6

Hour == 60 * 60

\* Rows around the thresholds of the layering rule: deposits at 0:00 and at
\* 1:00, transfers at and after them.
LayeringKinds ==
    << Row("DEPOSIT", 50000, 0, 7),
       Row("DEPOSIT", 50001, 0, 7),
       Row(" deposit ", 80000, Hour, 7),
       Row("TRANSFER", 10000, 0, 8),
       Row("TRANSFER", 10000, Hour, 9),
       Row("Transfer ", 10000, Day, 10),
       Row("TRANSFER", 10000, Day + 1, 11),
       Row("WITHDRAWAL", 10000, 2 * Hour, 12),
       Row("TRANSFER", 10000, Day + Hour, 13) >>

MaxLayeringRows == 6

\* Rows around the thresholds of the round-tripping rule: transfers at day
\* 0 and day 1, deposits from 1 day to 14 days after day 0.
RoundTripKinds ==
    << Row("TRANSFER", 20000, 0, 14),
       Row("Transfer ", 11000, 0, 14),
       Row("TRANSFER", 9999, 0, 14),
       Row("TRANSFER", 10000, Day, 14),
       Row("DEPOSIT", 17000, Day, 15),
       Row("DEPOSIT", 23000, 14 * Day, 16),
       Row(" deposit ", 12650, 2 * Day, 15),
       Row("DEPOSIT", 20000, Day - 1, 15),
       Row("DEPOSIT", 20000, 14 * Day + 1, 15),
       Row("DEPOSIT", 20000, 2 * Day, 14),
       Row("DEPOSIT", 9350, 3 * Day, 16) >>

MaxRoundTripRows == 4

\* Rows around the thresholds of the rapid-movement rule: deposits at 0:00
\* and 1:00, withdrawals from the deposit's timestamp to 24 hours and one
\* second after it.
RapidMovementKinds ==
    << Row("DEPOSIT", 20000, 0, 15),
       Row(" deposit ", 19999, 0, 15),
       Row("DEPOSIT", 40000, Hour, 15),
       Row("WITHDRAWAL", 18000, 0, 16),
       Row("WITHDRAWAL", 18000, Day, 16),
       Row("withdrawal", 21000, 1, 16),
       Row("WITHDRAWAL", 21001, Hour, 16),
       Row("WITHDRAWAL", 17999, Hour, 16),
       Row("WITHDRAWAL", 36000, Day + Hour, 16),
       Row("WITHDRAWAL", 42000, Day + Hour + 1, 16),
       Row("TRANSFER", 20000, Hour, 16) >>

MaxRapidMovementRows == 4

\* Rows around the thresholds of the shell fan-out rule: a deposit of 100000
\* or 100001 at 0:00, a deposit of 150000 at 1:00 or none, a transfer at
\* 1:00 or none, transfers every hour from 2:00 on to a number of
\* counterparties, transfers one second after 24:00, and five small
\* withdrawals to five more counterparties or none.
MaxShellTransfers == 8

ShellParties == {5, 6}

\* Rows that repeat one pattern up to the caps of the confidences: deposits
\* of 5000 or of 9500 every hour, transfers of 20000 with one deposit two
\* days later, deposits of 20000 with one withdrawal an hour later, and a
\* deposit of 150000 with a transfer every hour after it.
RepeatedKinds ==
    {"deposits_5000", "deposits_9500", "round_trips", "pass_throughs", "fan_out"}

RepeatedParties == {3, 8, 16}

MaxRepeated == 16

RepeatedRows(kind, count, parties) ==
    ConcatBatches(
        CASE kind = "deposits_5000" ->
                 << Batch(1, "DEPOSIT", 5000, 0, Hour, count, 1, parties) >>
          [] kind = "deposits_9500" ->
                 << Batch(1, "DEPOSIT", 9500, 0, Hour, count, 1, parties) >>
          [] kind = "round_trips" ->
                 << Batch(1, "TRANSFER", 20000, 0, 0, count, 14, 1),
                    Batch(1, "DEPOSIT", 20000, 2 * Day, 0, 1, 15, 1) >>
          [] kind = "pass_throughs" ->
                 << Batch(1, "DEPOSIT", 20000, 0, 0, count, 15, 1),
                    Batch(1, "WITHDRAWAL", 20000, Hour, 0, 1, 16, 1) >>
          [] kind = "fan_out" ->
                 << Batch(1, "DEPOSIT", 150000, 0, 0, 1, 1, 1),
                    Batch(1, "TRANSFER", 20000, Hour, Hour, count, 1, parties) >>)

ShellRows(first, second, at_one, hourly, parties, late, others) ==
    ConcatBatches(
        << Batch(1, "DEPOSIT", first, 0, 0, 1, 7, 1),
           Batch(1, " deposit ", 150000, Hour, 0, IF second THEN 1 ELSE 0, 7, 1),
           Batch(1, "TRANSFER", 20000, Hour, 0, at_one, 8, 1),
           Batch(1, "TRANSFER", 20000, 2 * Hour, Hour, hourly, 8, parties),
           Batch(1, "Transfer ", 20000, Day + 1, 0, late, 8, 1),
           Batch(1, "WITHDRAWAL", 500, 0, 0, IF others THEN 5 ELSE 0, 1, 5) >>)

KindRows(kinds, c) == Renumbered([i \in 1..Len(c) |-> kinds[c[i]]])

InitTypology ==
    \/ \E c \in Multisets(1, Len(SmurfingKinds), MaxSmurfingRows) :
          InitWith(KindRows(SmurfingKinds, c))
    \/ \E c \in Multisets(1, Len(LayeringKinds), MaxLayeringRows) :
          InitWith(KindRows(LayeringKinds, c))
    \/ \E c \in Multisets(1, Len(RoundTripKinds), MaxRoundTripRows) :
          InitWith(KindRows(RoundTripKinds, c))
    \/ \E c \in Multisets(1, Len(RapidMovementKinds), MaxRapidMovementRows) :
          InitWith(KindRows(RapidMovementKinds, c))
    \/ \E first \in {100000, 100001}, second \in BOOLEAN, at_one \in 0..1,
          hourly \in (MaxShellTransfers - 2)..MaxShellTransfers,
          parties \in ShellParties, late \in 0..2, others \in BOOLEAN :
          InitWith(Renumbered(ShellRows(first, second, at_one, hourly, parties,
                                        late, others)))
    \/ \E kind \in RepeatedKinds, count \in 0..MaxRepeated,
          parties \in RepeatedParties :
          InitWith(Renumbered(RepeatedRows(kind, count, parties)))

NextTypology ==
    \E with_graph \in BOOLEAN : TypologyEngine_match(1, "as_is", with_graph)

SpecTypology == InitTypology /\ [][NextTypology]_vars

\* The entries of the returned list for the typology.
EntriesOf(typology) ==
    SelectSeq(ReturnedMatches, LAMBDA m : m.typology = typology)

\* The transactions match was given that are of the type, by the cleaned
\* transaction_type.
GivenOfType(t) ==
    SelectSeq(result.transactions, LAMBDA r : StrUpperStrip(r.transaction_type) = t)

TimeOf(r) == r.timestamp[2]

\* The candidate deposits of the smurfing rule.
SmurfingCandidates ==
    SelectSeq(GivenOfType("DEPOSIT"), LAMBDA r : r.amount > 4000 /\ r.amount < 10000)

\* The candidates in the window [s, s + 14 days].
SmurfingWindow(s) ==
    SelectSeq(SmurfingCandidates, LAMBDA r : TimeOf(r) >= s /\ TimeOf(r) <= s + 14 * Day)

\* The window that contains the most candidates; of several that do, the
\* one that starts first.
FullestWindow ==
    LET starts == {TimeOf(SmurfingCandidates[i]) : i \in 1..Len(SmurfingCandidates)}
        fullest == {s \in starts :
                       \A u \in starts : Len(SmurfingWindow(u)) <= Len(SmurfingWindow(s))}
    IN  IF starts = {} THEN <<>>
        ELSE SmurfingWindow(CHOOSE s \in fullest : \A u \in fullest : s <= u)

PartiesOf(rows) == {rows[i].counterparty : i \in 1..Len(rows)}

\* C15: match returns a SMURFING entry if and only if, among the DEPOSITs
\* with amount strictly between 4000 and 10000, the window [s, s + 14 days]
\* that contains the most of them (s a candidate's timestamp; the first such
\* window when several hold as many) holds at least 5 deposits from at
\* least 3 distinct counterparties; the entry's transaction_count and
\* total_amount are the count and the sum of the deposits in that window.
C15_SmurfingIffFullestWindow ==
    result.kind = "matches" =>
        /\ result.value.kind = "list"
        /\ Len(EntriesOf("SMURFING")) =
              (IF /\ Len(FullestWindow) >= 5
                  /\ Cardinality(PartiesOf(FullestWindow)) >= 3
               THEN 1 ELSE 0)
        /\ \A i \in 1..Len(EntriesOf("SMURFING")) :
              /\ EntriesOf("SMURFING")[i].transaction_count = Len(FullestWindow)
              /\ EntriesOf("SMURFING")[i].total_amount = SumSeq(Amounts(FullestWindow))

\* A SMURFING entry for a window of exactly 5 deposits from exactly 3
\* counterparties, given also a row outside the window or one that the rule
\* does not count.
C15_Witness ==
    /\ Len(EntriesOf("SMURFING")) = 1
    /\ Len(FullestWindow) = 5
    /\ Cardinality(PartiesOf(FullestWindow)) = 3
    /\ Len(result.transactions) > 5

\* The rows of the type whose timestamp is strictly after the deposit's and
\* at most 24 hours after it.
Within24hAfter(t, dep) ==
    SelectSeq(GivenOfType(t), LAMBDA r :
        TimeOf(r) > TimeOf(dep) /\ TimeOf(r) <= TimeOf(dep) + Day)

\* The first of the rows that satisfy Test: the earliest, and of several at
\* that timestamp the one given first.
Earliest(rows, Test(_)) ==
    LET ok == {i \in 1..Len(rows) : Test(rows[i])}
    IN  rows[CHOOSE i \in ok :
                \A j \in ok : \/ TimeOf(rows[i]) < TimeOf(rows[j])
                               \/ (TimeOf(rows[i]) = TimeOf(rows[j]) /\ i <= j)]

\* A DEPOSIT over 50000 followed by at least 4 TRANSFERs.
Layered(dep) == dep.amount > 50000 /\ Len(Within24hAfter("TRANSFER", dep)) >= 4

\* C16: match returns a LAYERING entry if and only if some DEPOSIT with
\* amount over 50000 is followed by at least 4 TRANSFERs strictly after it
\* and at most 24 hours later; the entry is built from the earliest such
\* deposit: transaction_count is the number of those transfers plus one and
\* total_amount is the deposit's amount.
C16_LayeringIffDepositThenTransfers ==
    result.kind = "matches" =>
        LET deposits == GivenOfType("DEPOSIT")
            some     == \E i \in 1..Len(deposits) : Layered(deposits[i])
        IN  /\ result.value.kind = "list"
            /\ Len(EntriesOf("LAYERING")) = (IF some THEN 1 ELSE 0)
            /\ some =>
                  LET dep == Earliest(deposits, Layered)
                  IN  /\ EntriesOf("LAYERING")[1].transaction_count
                            = Len(Within24hAfter("TRANSFER", dep)) + 1
                      /\ EntriesOf("LAYERING")[1].total_amount = dep.amount

\* A LAYERING entry for the later of two deposits over 50000, the earlier
\* one having a transfer in its 24 hours but fewer than 4.
C16_Witness ==
    /\ Len(EntriesOf("LAYERING")) = 1
    /\ EntriesOf("LAYERING")[1].total_amount = 80000
    /\ \E i \in 1..Len(result.transactions) :
          /\ result.transactions[i].amount = 50001
          /\ Within24hAfter("TRANSFER", result.transactions[i]) # <<>>
          /\ ~Layered(result.transactions[i])

\* The DEPOSITs dated between 1 and 14 days after the transfer, from a
\* different counterparty, with amount from 85% to 115% of the transfer's.
ReturnsOf(out) ==
    SelectSeq(GivenOfType("DEPOSIT"), LAMBDA r :
        /\ TimeOf(r) >= TimeOf(out) + Day
        /\ TimeOf(r) <= TimeOf(out) + 14 * Day
        /\ r.counterparty # out.counterparty
        /\ r.amount * 100 >= out.amount * 85
        /\ r.amount * 100 <= out.amount * 115)

\* The outbound TRANSFERs of at least 10000 that have such a deposit.
Returned ==
    SelectSeq(GivenOfType("TRANSFER"), LAMBDA out :
        out.amount >= 10000 /\ ReturnsOf(out) # <<>>)

\* The pairs a ROUND_TRIPPING entry lists as evidence.
PairsOf(entry) ==
    LET pairs == SelectSeq(entry.evidence, LAMBDA e : e[1] = "pair")
    IN  {pairs[i][2] : i \in 1..Len(pairs)}

\* C17: match returns a ROUND_TRIPPING entry if and only if at least 2
\* outbound TRANSFERs of at least 10000 each have some DEPOSIT dated
\* between 1 and 14 days (inclusive) after the transfer, from a different
\* counterparty, with amount within 85%..115% of the transfer's; each
\* transfer is paired with the earliest such deposit.
C17_RoundTrippingIffTwoReturned ==
    result.kind = "matches" =>
        /\ result.value.kind = "list"
        /\ Len(EntriesOf("ROUND_TRIPPING")) = (IF Len(Returned) >= 2 THEN 1 ELSE 0)
        /\ \A i \in 1..Len(EntriesOf("ROUND_TRIPPING")) :
              \A pair \in PairsOf(EntriesOf("ROUND_TRIPPING")[i]) :
                  \E j \in 1..Len(Returned) :
                      /\ Returned[j].id = pair.out_id
                      /\ Earliest(ReturnsOf(Returned[j]), LAMBDA r : TRUE).id
                            = pair.in_id

\* The WITHDRAWALs strictly after the deposit and at most 24 hours later
\* whose amount is from 90% to 105% of the deposit's.
WithdrawalsOf(dep) ==
    SelectSeq(Within24hAfter("WITHDRAWAL", dep), LAMBDA r :
        r.amount * 100 >= dep.amount * 90 /\ r.amount * 100 <= dep.amount * 105)

\* The DEPOSITs of at least 20000 that have such a withdrawal.
PassedThrough ==
    SelectSeq(GivenOfType("DEPOSIT"), LAMBDA dep :
        dep.amount >= 20000 /\ WithdrawalsOf(dep) # <<>>)

FannedOut(dep) ==
    /\ dep.amount > 100000
    /\ Len(Within24hAfter("TRANSFER", dep)) >= 8
    /\ Cardinality(PartiesOf(Within24hAfter("TRANSFER", dep))) >= 6

\* The graph result handed to match contains a high_degree_hub pattern.
HubSupplied ==
    /\ result.graph_results.kind = "graph"
    /\ \E i \in 1..Len(result.graph_results.suspicious_patterns) :
          result.graph_results.suspicious_patterns[i].type = "high_degree_hub"

Capped(cap, value) == IF value > cap THEN cap ELSE value

\* The structuring flag of the analytics results match was given.
StructuringFlagGiven ==
    AggregatedResults(result.transactions).structuring_detected

\* The confidence formulas of the detectors other than LAYERING, in 1/100,
\* for the entry at hand.
FormulaOf(entry) ==
    CASE entry.typology = "SMURFING" ->
             LET base == Capped(95, 40 + 3 * Len(FullestWindow)
                                       + 2 * Cardinality(PartiesOf(FullestWindow)))
             IN  IF StructuringFlagGiven THEN Capped(98, base + 10) ELSE base
      [] entry.typology \in {"ROUND_TRIPPING", "RAPID_MOVEMENT"} ->
             Capped(95, 50 + 10 * (entry.transaction_count \div 2))
      [] entry.typology = "SHELL_FAN_OUT" ->
             LET dep == Earliest(GivenOfType("DEPOSIT"), FannedOut)
                 u   == Cardinality(PartiesOf(Within24hAfter("TRANSFER", dep)))
             IN  Capped(95, 50 + 3 * u + (IF HubSupplied THEN 10 ELSE 0))

\* The LAYERING formula min(0.95, 0.5 + 0.03 * transfers + 0.2 * dispersed
\* / deposit) in 1/100, times the deposit's amount.
LayeringFormulaTimesDeposit ==
    LET dep       == Earliest(GivenOfType("DEPOSIT"), Layered)
        transfers == Within24hAfter("TRANSFER", dep)
    IN  Capped(95 * dep.amount,
               (50 + 3 * Len(transfers)) * dep.amount
                   + 20 * SumSeq(Amounts(transfers)))

LayeringDeposit == Earliest(GivenOfType("DEPOSIT"), Layered).amount

\* C20 as stated: every returned match's confidence equals its detector's
\* formula: SMURFING min(0.95, 0.4 + 0.03 * count + 0.02 * unique), raised by
\* 0.1 and capped at 0.98 with the structuring flag; LAYERING min(0.95, 0.5 +
\* 0.03 * transfers + 0.2 * fraction dispersed); ROUND_TRIPPING and
\* RAPID_MOVEMENT min(0.95, 0.5 + 0.1 * pairs); SHELL_FAN_OUT min(0.95, 0.5 +
\* 0.03 * unique recipients + 0.1 if hub).
C20_ConfidenceEqualsFormula ==
    \A i \in 1..Len(ReturnedMatches) :
        LET entry == ReturnedMatches[i]
        IN  IF entry.typology = "LAYERING"
            THEN entry.confidence * LayeringDeposit = LayeringFormulaTimesDeposit
            ELSE entry.confidence = FormulaOf(entry)

\* C20 amended: every returned match's confidence equals its detector's
\* formula rounded to two decimals; only the LAYERING formula has values
\* that the rounding changes.
C20_ConfidenceEqualsRoundedFormula ==
    \A i \in 1..Len(ReturnedMatches) :
        LET entry == ReturnedMatches[i]
        IN  IF entry.typology = "LAYERING"
            THEN 2 * Abs(entry.confidence * LayeringDeposit
                            - LayeringFormulaTimesDeposit) <= LayeringDeposit
            ELSE entry.confidence = FormulaOf(entry)

\* A LAYERING entry whose formula value is not a whole number of hundredths
\* and is below the cap.
C20_Witness ==
    \E i \in 1..Len(ReturnedMatches) :
        /\ ReturnedMatches[i].typology = "LAYERING"
        /\ LayeringFormulaTimesDeposit % LayeringDeposit # 0
        /\ ReturnedMatches[i].confidence < 95

\* The concrete entries of an evidence list: the pairs of a ROUND_TRIPPING
\* or RAPID_MOVEMENT entry, the recipients of a SHELL_FAN_OUT entry.
ConcreteEntries(entry) ==
    SelectSeq(entry.evidence, LAMBDA e : e[1] \in {"pair", "recipient"})

\* C21 as stated: in every ROUND_TRIPPING, RAPID_MOVEMENT and SHELL_FAN_OUT
\* match the evidence list has at most three concrete transaction-pair or
\* recipient entries besides its count and aggregate-amount lines.
C21_AtMostThreeConcreteEntries ==
    \A i \in 1..Len(ReturnedMatches) :
        ReturnedMatches[i].typology
              \in {"ROUND_TRIPPING", "RAPID_MOVEMENT", "SHELL_FAN_OUT"}
           => Len(ConcreteEntries(ReturnedMatches[i])) <= 3

\* C21 amended: the evidence list of every ROUND_TRIPPING and
\* RAPID_MOVEMENT match has at most three transaction-pair entries (the
\* first three pairs), and that of every SHELL_FAN_OUT match at most five
\* recipient entries, besides its count and aggregate-amount lines.
C21_AtMostThreePairsFiveRecipients ==
    \A i \in 1..Len(ReturnedMatches) :
        LET entry == ReturnedMatches[i]
            pairs == entry.transaction_count \div 2
        IN  /\ entry.typology \in {"ROUND_TRIPPING", "RAPID_MOVEMENT"} =>
                  Len(ConcreteEntries(entry)) = (IF pairs > 3 THEN 3 ELSE pairs)
            /\ entry.typology = "SHELL_FAN_OUT" =>
                  Len(ConcreteEntries(entry)) <= 5

\* A ROUND_TRIPPING or RAPID_MOVEMENT entry of more than three pairs lists
\* three of them.
C21_Witness ==
    \E i \in 1..Len(ReturnedMatches) :
        /\ ReturnedMatches[i].typology \in {"ROUND_TRIPPING", "RAPID_MOVEMENT"}
        /\ ReturnedMatches[i].transaction_count > 6
        /\ Len(ConcreteEntries(ReturnedMatches[i])) = 3

(***************************************************************************)
(* The transaction graph of a customer, read off the tables.               *)
(***************************************************************************)
\* The rows of the customer's accounts.
RowsOfCustomer(customer_id) ==
    {i \in 1..Len(db_transactions) :
        \E a \in db_accounts : /\ a.customer_id = customer_id
                               /\ a.id = db_transactions[i].account_id}

\* The nodes of the customer's graph: the accounts and their counterparties.
NodesOfCustomer(customer_id) ==
    {<<"acct", a.id>> : a \in {x \in db_accounts : x.customer_id = customer_id}}
    \cup {<<"ext", db_transactions[i].counterparty>> :
             i \in RowsOfCustomer(customer_id)}

\* The nodes a node of the customer's graph is linked to.
NeighboursOf(customer_id, node) ==
    {<<"ext", db_transactions[i].counterparty>> :
        i \in {j \in RowsOfCustomer(customer_id) :
                  node = <<"acct", db_transactions[j].account_id>>}}
    \cup {<<"acct", db_transactions[i].account_id>> :
        i \in {j \in RowsOfCustomer(customer_id) :
                  node = <<"ext", db_transactions[j].counterparty>>}}

HubsOf(customer_id) ==
    {n \in NodesOfCustomer(customer_id) :
        Cardinality(NeighboursOf(customer_id, n)) > 10}

HubRecords(value) ==
    SelectSeq(value.suspicious_patterns, LAMBDA p : p.type = "high_degree_hub")

\* C22: the result of build_graph holds a high_degree_hub pattern exactly
\* when some node of the customer's graph has more than 10 neighbours, and
\* then it holds one such record, listing exactly the nodes with more than
\* 10 neighbours.
C22_HubIffDegreeAbove10 ==
    result.kind = "GraphResult" =>
        LET hubs    == HubsOf(result.customer_id)
            records == HubRecords(result.value)
        IN  IF hubs = {}
            THEN records = <<>>
            ELSE /\ Len(records) = 1
                 /\ records[1].nodes = hubs

C22_Witness ==
    /\ result.kind = "GraphResult"
    /\ HubsOf(result.customer_id) # {}
    /\ Len(HubRecords(result.value)) = 1

(***************************************************************************)
(* One GraphAnalyzer called more than once: build_graph adds to self.graph,*)
(* which only __init__ sets to an empty graph.                             *)
(***************************************************************************)
\* analyzer.build_graph(customer_id) on the analyzer that has already built.
GraphAnalyzer_build_graph_again(customer_id) ==
    /\ pc = "returned"
    /\ result.kind = "GraphResult"
    /\ self_graph' = BuiltGraph(self_graph, customer_id)
    /\ result' = [kind |-> "GraphResult", customer_id |-> customer_id,
                  value |-> analyze_graph(BuiltGraph(self_graph, customer_id))]
    /\ UNCHANGED <<db_accounts, db_transactions, matching, state, pc, trace, audit_logs>>

InitGraph == Init

NextGraph ==
    \/ \E customer_id \in Customers : GraphAnalyzer_build_graph(customer_id)
    \/ \E customer_id \in Customers : GraphAnalyzer_build_graph_again(customer_id)

SpecGraph == InitGraph /\ [][NextGraph]_vars

\* The edge is the one add_edge makes of a row of the customer's accounts.
EdgeOfCustomer(customer_id, e) ==
    \E i \in RowsOfCustomer(customer_id) :
        /\ e.source = <<"acct", db_transactions[i].account_id>>
        /\ e.target = <<"ext", db_transactions[i].counterparty>>
        /\ e.weight = db_transactions[i].amount
        /\ e.timestamp = db_transactions[i].timestamp

\* C23: whatever build_graph calls came before, on the same analyzer or
\* another, the GraphResult returned for a customer holds only nodes and
\* edges made of that customer's own accounts and transactions.
C23_OnlyOwnNodesAndEdges ==
    result.kind = "GraphResult" =>
        /\ result.value.nodes \subseteq NodesOfCustomer(result.customer_id)
        /\ \A e \in result.value.edges : EdgeOfCustomer(result.customer_id, e)

\* The rows of the customer between an account and a counterparty, in
\* table order.
RowsBetween(customer_id, source, target) ==
    SelectSeq(db_transactions,
              LAMBDA t : /\ \E a \in db_accounts : /\ a.customer_id = customer_id
                                                   /\ a.id = t.account_id
                         /\ source = <<"acct", t.account_id>>
                         /\ target = <<"ext", t.counterparty>>)

EdgesBetween(value, source, target) ==
    {e \in value.edges : e.source = source /\ e.target = target}

\* One edge for every transaction, weighing the transaction's amount.
OneEdgePerTransaction(customer_id, value) ==
    /\ Cardinality(value.edges) = Cardinality(RowsOfCustomer(customer_id))
    /\ \A i \in RowsOfCustomer(customer_id) :
          \E e \in value.edges :
              /\ e.source = <<"acct", db_transactions[i].account_id>>
              /\ e.target = <<"ext", db_transactions[i].counterparty>>
              /\ e.weight = db_transactions[i].amount

\* One edge for every account and counterparty with transactions between
\* them, weighing the sum of their amounts.
OneSummedEdgePerPair(customer_id, value) ==
    \A i \in RowsOfCustomer(customer_id) :
        LET source  == <<"acct", db_transactions[i].account_id>>
            target  == <<"ext", db_transactions[i].counterparty>>
            rows    == RowsBetween(customer_id, source, target)
            between == EdgesBetween(value, source, target)
        IN  /\ Cardinality(between) = 1
            /\ \A e \in between :
                  e.weight = SumSeq([k \in 1..Len(rows) |-> rows[k].amount])

\* C24: the edge list of a GraphResult represents the amount of every
\* transaction of the customer under one rule: an edge per transaction
\* with the transaction's amount, or one edge per account and counterparty
\* with the sum of the amounts between them.
C24_EveryAmountInEdgeList ==
    result.kind = "GraphResult" =>
        \/ OneEdgePerTransaction(result.customer_id, result.value)
        \/ OneSummedEdgePerPair(result.customer_id, result.value)

(***************************************************************************)
(* TypologyEngine.match with its five detectors as steps of their own,     *)
(* taken in any order over the inputs the call holds.                      *)
(***************************************************************************)
DetectorNames ==
    {"_detect_smurfing", "_detect_layering", "_detect_round_tripping",
     "_detect_rapid_movement", "_detect_shell_fan_out"}

\* What a detector leaves of the inputs it was given, with layering taking
\* the deposits over 50000 out of the transactions.
AfterDetectorConsuming(name, inputs) ==
    IF name = "_detect_layering"
    THEN [inputs EXCEPT !.transactions =
             SelectSeq(inputs.transactions, LAMBDA t : ~(t.amount > 50000))]
    ELSE inputs

\* What a detector leaves of the inputs it was given: every detector reads
\* df, analytics and graph_results through filters, sorts and lookups that
\* return new objects, and assigns to none of them.
AfterDetector(name, inputs) == inputs

\* self._detect_...(df, ...) on the inputs the call holds.
RunDetector(name, inputs) ==
    LET df        == TypologyFrame(inputs.transactions)
        has_type  == HasColumn(inputs.transactions, "transaction_type")
        has_party == HasColumn(inputs.transactions, "counterparty")
    IN  CASE name = "_detect_smurfing" ->
                detect_smurfing(df, has_type, has_party, inputs.analytics_results)
          [] name = "_detect_layering" ->
                detect_layering(df, has_type, has_party)
          [] name = "_detect_round_tripping" ->
                detect_round_tripping(df, has_type, has_party)
          [] name = "_detect_rapid_movement" ->
                detect_rapid_movement(df, has_type)
          [] name = "_detect_shell_fan_out" ->
                detect_shell_fan_out(df, has_type, has_party, inputs.graph_results)

\* match up to its first detector: the frame is built and matches = [].
TypologyEngine_match_begin(customer_id, shape, with_graph) ==
    /\ pc = "idle"
    /\ LET st == CallerState(customer_id, shape)
           inputs ==
               [transactions      |-> st.transactions,
                analytics_results |-> AggregatedResults(st.transactions),
                graph_results     |-> IF with_graph THEN build_graph(customer_id)
                                      ELSE EmptyDict]
       IN  /\ st.transactions # <<>>
           /\ matching' = [kind |-> "match", given |-> inputs, inputs |-> inputs,
                           done |-> {}, first |-> "", matches |-> {}]
    /\ pc' = "detecting"
    /\ UNCHANGED <<db_accounts, db_transactions, state, trace, audit_logs, result,
                   self_graph>>

\* One detector, not yet run in this call, runs and appends what it found;
\* the call remembers which detectors have run and which ran first.
TypologyEngine_detect(name) ==
    /\ pc = "detecting"
    /\ name \notin matching.done
    /\ LET found == RunDetector(name, matching.inputs)
       IN  IF found.kind = "raised"
           THEN /\ pc' = "raised"
                /\ UNCHANGED matching
           ELSE /\ matching' =
                      [matching EXCEPT
                          !.inputs  = AfterDetector(name, matching.inputs),
                          !.done    = matching.done \cup {name},
                          !.first   = IF matching.done = {} THEN name
                                      ELSE matching.first,
                          !.matches = IF found.kind = "match"
                                      THEN matching.matches \cup {found}
                                      ELSE matching.matches]
                /\ pc' = IF matching.done \cup {name} = DetectorNames
                         THEN "detected" ELSE "detecting"
    /\ UNCHANGED <<db_accounts, db_transactions, state, trace, audit_logs, result,
                   self_graph>>

InitDetectors == Init

NextDetectors ==
    \/ \E shape \in {"as_is", "no_counterparty"}, with_graph \in BOOLEAN :
          TypologyEngine_match_begin(1, shape, with_graph)
    \/ \E name \in DetectorNames : TypologyEngine_detect(name)

SpecDetectors == InitDetectors /\ [][NextDetectors]_vars

\* The matches of the detectors called in the order of match, on the
\* inputs the call was given.
MatchesInSourceOrder(given) ==
    LET results == DetectorResults(given.transactions, given.analytics_results,
                                   given.graph_results)
    IN  {results[i] : i \in {k \in 1..Len(results) : results[k].kind = "match"}}

SevenNodes ==
    << "ingestion", "analytics", "correlation", "narrative", "quality_review",
       "compliance", "audit" >>

PipelineNodes == {SevenNodes[i] : i \in 1..Len(SevenNodes)}

\* self.graph.invoke(initial_state): the node that is due is called and
\* hands over to the next node or to END, or raises.
invoke ==
    /\ pc \in PipelineNodes
    /\ pc' \in (PipelineNodes \cup {"END", "raised"}) \ {pc}

SpecPipeline == Init /\ [][Next]_vars /\ WF_pc(invoke)

\* C26: a pipeline run enters the seven agents in the order Ingestion,
\* Analytics, Correlation, Narrative, Quality review, Compliance, Audit,
\* none of them twice; a run that has started goes on until it has ended or
\* an agent has raised, and a run that has ended has entered all seven and
\* has audit_complete true.
C26_SevenAgentsOnceInOrder ==
    /\ [](/\ Len(trace) <= Len(SevenNodes)
          /\ trace = SubSeq(SevenNodes, 1, Len(trace))
          /\ pc = "END" => (trace = SevenNodes /\ state.audit_complete))
    /\ (pc = "ingestion") ~> (pc = "END" \/ pc = "raised")

C26_Witness ==
    /\ pc = "END"
    /\ trace = SevenNodes
    /\ state.audit_complete
    /\ state.transactions # <<>>

ExpectedAgents ==
    {"IngestionAgent", "AnalyticsAgent", "CorrelationAgent", "NarrativeAgent",
     "ComplianceAgent", "AuditLogger"}

AgentsInAudit == {audit_logs[i] : i \in 1..Len(audit_logs)}

\* C27: once a pipeline run has ended, the audit log of the case holds an
\* entry of each of IngestionAgent, AnalyticsAgent, CorrelationAgent,
\* NarrativeAgent, ComplianceAgent and AuditLogger, whatever state the run
\* was given.
C27_EveryAgentInAuditLog ==
    pc = "END" => ExpectedAgents \subseteq AgentsInAudit

\* The pairs _detect_round_tripping makes of the transactions given.
MatchedRoundTrips ==
    LET df == TypologyFrame(result.transactions)
    IN  RoundTrips(OfType(df, "TRANSFER"), OfType(df, "DEPOSIT"), 1)

\* The pairs _detect_rapid_movement makes of the transactions given.
MatchedPassThroughs ==
    LET df == TypologyFrame(result.transactions)
    IN  PassThroughs(OfType(df, "DEPOSIT"), OfType(df, "WITHDRAWAL"), 1)

\* C28: the transaction_count of a ROUND_TRIPPING or RAPID_MOVEMENT entry,
\* twice the number of matched pairs, is the number of distinct
\* transactions in the matched pairs: no deposit is the return of two
\* transfers and no withdrawal the way out of two deposits.
C28_CountIsDistinctTransactions ==
    \A i \in 1..Len(ReturnedMatches) :
        LET entry == ReturnedMatches[i]
            trips == MatchedRoundTrips
            passes == MatchedPassThroughs
        IN  /\ entry.typology = "ROUND_TRIPPING" =>
                  entry.transaction_count =
                      Cardinality({trips[k].out_id : k \in 1..Len(trips)}
                                  \cup {trips[k].in_id : k \in 1..Len(trips)})
            /\ entry.typology = "RAPID_MOVEMENT" =>
                  entry.transaction_count =
                      Cardinality({passes[k].dep_id : k \in 1..Len(passes)}
                                  \cup {passes[k].wd_id : k \in 1..Len(passes)})

\* C29: for an account with 10 or fewer transactions detect_anomalies
\* reports no z-score anomaly, whatever the amounts, and the risk score is
\* the sum of the structuring and velocity terms alone.
C29_NoZScoreAnomalyUpToTen ==
    (result.kind = "AnomalyResult" /\ Len(AmountsOf(result.account_id)) <= 10) =>
        /\ result.value.anomalies = <<>>
        /\ result.value.risk_score =
              RiskFormula(0, result.value.structuring_detected,
                          result.value.velocity_spike)

\* detect_anomalies has returned for an account with ten transactions, one
\* of them 100000 and none of the others above 1100.
C29_Witness ==
    /\ result.kind = "AnomalyResult"
    /\ Len(AmountsOf(result.account_id)) = 10
    /\ Cardinality({i \in 1..10 : AmountsOf(result.account_id)[i] = 100000}) = 1
    /\ result.value.anomalies = <<>>

TypologiesOf(matches) == {matches[i].typology : i \in 1..Len(matches)}

\* C30: a list match returns that holds a SHELL_FAN_OUT entry holds a
\* LAYERING entry too, and no list holds two entries of the same typology,
\* so none has more than five entries.
C30_ShellImpliesLayeringNoDuplicates ==
    LET matches == ReturnedMatches
    IN  /\ "SHELL_FAN_OUT" \in TypologiesOf(matches) =>
              "LAYERING" \in TypologiesOf(matches)
        /\ \A i, j \in 1..Len(matches) :
              matches[i].typology = matches[j].typology => i = j
        /\ Len(matches) <= 5

\* match returned a SHELL_FAN_OUT entry and a LAYERING entry for a deposit
\* followed by exactly 8 transfers.
C30_Witness ==
    /\ {"SHELL_FAN_OUT", "LAYERING"} \subseteq TypologiesOf(ReturnedMatches)
    /\ \E i \in 1..Len(ReturnedMatches) :
          /\ ReturnedMatches[i].typology = "SHELL_FAN_OUT"
          /\ ReturnedMatches[i].transaction_count = 9

====
